---- MODULE Spec2Model ----
(***************************************************************************)
(* LexiBoost question preloader (src/question_preloader.py) with the       *)
(* request layer that drives it (src/app.py).                              *)
(*                                                                         *)
(* QuestionPreloader keeps four registries keyed by session id (queue,     *)
(* lock, worker thread, stop event).  Request threads call the manager     *)
(* operations; every started session has a daemon thread that runs         *)
(* _preload_worker.  Each access of a registry or of a shared object is    *)
(* one step, so that request threads and workers interleave as the Python  *)
(* threads do.  Objects created by one start_session_preloader call (the   *)
(* deque, the Lock, the Event and the Thread) share one allocation number. *)
(***************************************************************************)
EXTENDS Integers, Sequences, FiniteSets, TLC

\* ---- bounds of the model ------------------------------------------------
MaxStarts == 2        \* start_session_preloader calls that allocate resources
MaxProduced == 2      \* questions generated over a run
MaxTime == 2          \* clock ticks
MaxCache == 3         \* entries of the explanation cache, where scaled
MaxDistractors == 4   \* distractors in one list of an explanation
MaxCorrect == 6       \* correct answers in a row for one word
MaxCleanups == 2      \* runs of cleanup_preloaders (signal handler, atexit)

Sessions == {1, 2}
Users == {1, 2}
Words == {1, 2}
Threads == {1, 2}
Allocs == 1..MaxStarts

\* LEXIBOOST_QUESTION_TTL, in clock ticks
question_ttl == 1

\* line 154: the cache holds at most 1000 entries; a specification that
\* exercises the eviction scales the limit down (scope.capacity)
CacheCapacity == 1000

\* What definition_service.get_word_explanation answers on a cache miss: the
\* explanation of the external service (explain_word, line 52), or the mock
\* explanation (lines 48 and 64: mock mode, or the service raised).
ServiceExplanation == 1
MockExplanation == 2

\* SQL NULL in a column of the joined row
Null == -1

\* the user_words columns of a word the user has no progress row for, as the
\* LEFT JOIN of line 296 gives them
Unseen == [row |-> FALSE, correct_count |-> Null, srs_interval |-> Null,
           in_wrongbook |-> Null, next_review |-> Null]

\* the user_words columns of one word and the user; the word query reads
\* in_wrongbook and next_review only
WordStates ==
    {Unseen} \cup [row : {TRUE}, correct_count : {0}, srs_interval : {0},
                   in_wrongbook : {0, 1},
                   next_review : {Null} \cup (0..MaxTime)]

\* line 49: self.cache_lock, the Lock object that is no session's
CacheLock == 0

VARIABLES
    scope,              \* what a specification explores: the request threads
                        \* that issue calls, the session ids, user ids and
                        \* words they use, the payloads, the last clock tick
    queue_size,         \* self.queue_size
    preload_ahead,      \* self.preload_ahead
    now,                \* time.time()
    question_queues,    \* self.question_queues: session id -> deque (0: no key)
    session_locks,      \* self.session_locks:   session id -> Lock  (0: no key)
    preload_threads,    \* self.preload_threads: session id -> Thread (0: no key)
    stop_events,        \* self.stop_events:     session id -> Event (0: no key)
    deque,              \* contents of each deque object
    lock,               \* holder of each Lock object (0: free)
    event,              \* flag of each Event object
    wk,                 \* each Thread object running _preload_worker
    nextAlloc,          \* next allocation number
    produced,           \* questions generated so far
    explanation_cache,  \* self.explanation_cache, in insertion order
    pc,                 \* position of each request thread
    fr,                 \* locals of each request thread
    ret,                \* outcome of the last call of each request thread
    returned,           \* ids of the questions get_next_question has returned
    user_words,         \* table user_words, for the user: word id -> row
    question_attempts,  \* table question_attempts: <<session id, word id>>
    cleanup             \* app.py cleanup_preloaders: the thread that runs it,
                        \* the session ids it listed, those still to stop,
                        \* those it has called stop on, and its runs so far

config == <<scope, queue_size, preload_ahead>>
registries == <<question_queues, session_locks, preload_threads, stop_events>>
heap == <<deque, lock, event, wk, nextAlloc>>
request == <<pc, fr, ret>>
\* the tables the routes of app.py write; the preloader only reads them
store == <<user_words, question_attempts>>
vars == <<config, store, cleanup, now, registries, heap, produced, explanation_cache,
          request, returned>>

\* ---- values -------------------------------------------------------------
\* locals of a call: the session id, the other argument (user id or word id),
\* the deque / Thread and the Lock it has fetched, the keys its iteration has
\* visited, a number it has read (current_time, a length), and the queues as
\* they were when get_explanation_for_word_id began
NoFrame == [sid |-> 0, arg |-> 0, k |-> 0, lk |-> 0, vis |-> {}, n |-> 0,
            snap |-> <<>>]

\* outcome of a call: the operation and its arguments, whether it raised, and
\* what it returned (the question and the current_time it was checked
\* against, the status, the explanation)
NoRet == [op |-> "none", sid |-> 0, arg |-> 0, raised |-> FALSE, q |-> <<>>,
          at |-> 0, size |-> 0, alive |-> FALSE, expl |-> <<>>,
          is_correct |-> FALSE]

NoCleanup == [by |-> 0, began |-> {}, todo |-> {}, called |-> {}, runs |-> 0]

NoWorker == [sid |-> 0, uid |-> 0, pc |-> "none", lk |-> 0, q |-> <<>>]

\* PreloadedQuestion; id numbers the questions in generation order
PreloadedQuestion(id, w, u, e, t) ==
    [id |-> id, word_id |-> w, uid |-> u, expl |-> e, created_at |-> t]

Returns(o, s) == [NoRet EXCEPT !.op = o, !.sid = s]
Raises(o, s) == [NoRet EXCEPT !.op = o, !.sid = s, !.raised = TRUE]

\* threading.Thread.is_alive(): started and not yet finished
is_alive(k) == wk[k].pc \notin {"none", "unstarted", "dead"}

\* `key in dict` for a registry
Has(reg, s) == reg[s] # 0

\* len(dict)
DictLen(reg) == Cardinality({s \in Sessions : reg[s] # 0})

\* collections.deque(maxlen=n).append(x): a full deque drops its oldest entry
DequeAppendUnbounded(q, x, n) == Append(q, x)
DequeAppend(q, x, n) ==
    IF n = 0 THEN <<>>
    ELSE IF Len(q) >= n THEN Append(Tail(q), x)
    ELSE Append(q, x)

\* Reference counting frees an object nothing refers to.  A deque is referred
\* to by the registry and by a get_next_question call that has fetched it;
\* an Event by the registry only.
Reclaim(dq, qq, p, f) ==
    [k \in Allocs |->
        IF \/ \E s \in Sessions : qq[s] = k
           \/ \E t \in Threads : p[t] = "next_pop" /\ f[t].k = k
        THEN dq[k] ELSE <<>>]

ReclaimEvent(ev, se) ==
    [k \in Allocs |-> IF \E s \in Sessions : se[s] = k THEN ev[k] ELSE FALSE]

\* the eviction loop of get_next_question
RECURSIVE EvictExpired(_, _)
EvictExpired(q, current_time) ==
    IF q # <<>> /\ (current_time - Head(q).created_at) > question_ttl
    THEN EvictExpired(Tail(q), current_time)
    ELSE q

\* ---- initial state ------------------------------------------------------
InitState ==
    /\ now = 0
    /\ question_queues = [s \in Sessions |-> 0]
    /\ session_locks = [s \in Sessions |-> 0]
    /\ preload_threads = [s \in Sessions |-> 0]
    /\ stop_events = [s \in Sessions |-> 0]
    /\ deque = [k \in Allocs |-> <<>>]
    /\ lock = [k \in Allocs \cup {CacheLock} |-> 0]
    /\ event = [k \in Allocs |-> FALSE]
    /\ wk = [k \in Allocs |-> NoWorker]
    /\ nextAlloc = 1
    /\ produced = 0
    /\ explanation_cache = <<>>
    /\ pc = [t \in Threads |-> "idle"]
    /\ fr = [t \in Threads |-> NoFrame]
    /\ ret = [t \in Threads |-> NoRet]
    /\ returned = {}
    /\ user_words = scope.user_words
    /\ question_attempts = {}
    /\ cleanup = NoCleanup

\* calls of two request threads overlap, on one session
Init ==
    /\ scope = [callers |-> {1, 2}, sessions |-> {1}, users |-> {1},
                words |-> {1}, kinds |-> {1}, horizon |-> 1, starts |-> 1,
                wedge |-> FALSE,
                capacity |-> CacheCapacity,
                reliable |-> FALSE,
                user_words |-> <<>>]
    /\ queue_size = 1
    /\ preload_ahead \in {1, 2}
    /\ InitState

\* calls never overlap (one request thread), on one session
InitSeq ==
    /\ scope = [callers |-> {1}, sessions |-> {1}, users |-> {1, 2},
                words |-> {1}, kinds |-> {1}, horizon |-> MaxTime,
                starts |-> MaxStarts,
                wedge |-> FALSE,
                capacity |-> CacheCapacity,
                reliable |-> FALSE,
                user_words |-> <<>>]
    /\ queue_size = 2
    /\ preload_ahead \in {1, 2}
    /\ InitState

\* two overlapping calls and two allocations, on one session
InitDup ==
    /\ scope = [callers |-> {1, 2}, sessions |-> {1}, users |-> {1},
                words |-> {1}, kinds |-> {1}, horizon |-> 0,
                starts |-> MaxStarts,
                wedge |-> FALSE,
                capacity |-> CacheCapacity,
                reliable |-> FALSE,
                user_words |-> <<>>]
    /\ queue_size = 1
    /\ preload_ahead = 1
    /\ InitState

\* calls never overlap, on two sessions
InitTwo ==
    /\ scope = [callers |-> {1}, sessions |-> {1, 2}, users |-> {1},
                words |-> {1, 2}, kinds |-> {1}, horizon |-> 1,
                starts |-> MaxStarts,
                wedge |-> FALSE,
                capacity |-> CacheCapacity,
                reliable |-> FALSE,
                user_words |-> <<>>]
    /\ queue_size = 2
    /\ preload_ahead = 2
    /\ InitState

\* overlapping start and stop calls on one session; the worker may stall
\* anywhere, for ever
InitStop ==
    /\ scope = [callers |-> {1, 2}, sessions |-> {1}, users |-> {1},
                words |-> {1}, kinds |-> {1}, horizon |-> 0, starts |-> 1,
                wedge |-> TRUE,
                capacity |-> CacheCapacity,
                reliable |-> FALSE,
                user_words |-> <<>>]
    /\ queue_size = 1
    /\ preload_ahead = 1
    /\ InitState

\* the explanation cache scaled to MaxCache entries, more words than it
\* holds, a service that answers or fails
InitCache ==
    /\ scope = [callers |-> {1}, sessions |-> {1}, users |-> {1},
                words |-> 1..(MaxCache + 1),
                kinds |-> {ServiceExplanation, MockExplanation},
                horizon |-> 0, starts |-> 1, wedge |-> FALSE,
                capacity |-> MaxCache,
                reliable |-> FALSE,
                user_words |-> <<>>]
    /\ queue_size = 1
    /\ preload_ahead = 1
    /\ InitState

\* two consumers on one session whose worker fills a queue of two, with
\* time enough for a question to expire
InitServe ==
    /\ scope = [callers |-> {1, 2}, sessions |-> {1}, users |-> {1},
                words |-> {1}, kinds |-> {ServiceExplanation},
                horizon |-> MaxTime, starts |-> 1, wedge |-> FALSE,
                capacity |-> CacheCapacity,
                reliable |-> FALSE,
                user_words |-> <<>>]
    /\ queue_size = 2
    /\ preload_ahead = 2
    /\ InitState

\* the external service raises on every call: the mock explanation is the
\* only answer of get_word_explanation (definition_service.py line 64)
InitFail ==
    /\ scope = [callers |-> {1}, sessions |-> {1}, users |-> {1},
                words |-> {1}, kinds |-> {MockExplanation},
                horizon |-> 1, starts |-> 1, wedge |-> FALSE,
                capacity |-> CacheCapacity,
                reliable |-> FALSE,
                user_words |-> <<>>]
    /\ queue_size = 2
    /\ preload_ahead = 2
    /\ InitState

\* two sessions of two users, each session started for the user it belongs to
InitOwned ==
    /\ scope = [callers |-> {1}, sessions |-> {1, 2}, users |-> {1, 2},
                words |-> {1}, kinds |-> {ServiceExplanation},
                horizon |-> 0, starts |-> MaxStarts, wedge |-> FALSE,
                capacity |-> CacheCapacity,
                reliable |-> FALSE,
                user_words |-> <<>>]
    /\ queue_size = 1
    /\ preload_ahead = 1
    /\ InitState

\* one session, no consumer, a word store that always has a candidate and a
\* service that always answers; the threshold below, at and above the
\* capacity
InitLive ==
    /\ scope = [callers |-> {1}, sessions |-> {1}, users |-> {1},
                words |-> {1}, kinds |-> {ServiceExplanation},
                horizon |-> MaxTime, starts |-> 1, wedge |-> FALSE,
                capacity |-> CacheCapacity, reliable |-> TRUE,
                user_words |-> <<>>]
    /\ queue_size \in {1, 2}
    /\ preload_ahead \in {1, 2}
    /\ InitState

\* question generation applied to explanations
InitChoices ==
    /\ scope = [callers |-> {1}, sessions |-> {1}, users |-> {1},
                words |-> {1}, kinds |-> {ServiceExplanation},
                horizon |-> 0, starts |-> 1, wedge |-> FALSE,
                capacity |-> CacheCapacity, reliable |-> FALSE,
                user_words |-> <<>>]
    /\ queue_size = 1
    /\ preload_ahead = 1
    /\ InitState

\* word selection over every progress of one user in the words
InitSelect ==
    /\ \E uw \in [Words -> WordStates] :
          scope = [callers |-> {1}, sessions |-> {1}, users |-> {1},
                   words |-> Words, kinds |-> {ServiceExplanation},
                   horizon |-> MaxTime, starts |-> 1, wedge |-> FALSE,
                   capacity |-> CacheCapacity, reliable |-> FALSE,
                   user_words |-> uw]
    /\ queue_size = 1
    /\ preload_ahead = 1
    /\ InitState

\* one session of a user who has seen no word yet: answers are submitted
\* and words are selected while days pass
InitAttempt ==
    /\ scope = [callers |-> {1}, sessions |-> {1}, users |-> {1},
                words |-> Words, kinds |-> {ServiceExplanation},
                horizon |-> MaxTime, starts |-> 1, wedge |-> FALSE,
                capacity |-> CacheCapacity, reliable |-> FALSE,
                user_words |-> [w \in Words |-> Unseen]]
    /\ queue_size = 1
    /\ preload_ahead = 1
    /\ InitState

\* the main thread starts two sessions and runs the shutdown cleanup, twice
InitShutdown ==
    /\ scope = [callers |-> {1}, sessions |-> {1, 2}, users |-> {1},
                words |-> {1}, kinds |-> {ServiceExplanation},
                horizon |-> 0, starts |-> MaxStarts, wedge |-> FALSE,
                capacity |-> CacheCapacity, reliable |-> FALSE,
                user_words |-> <<>>]
    /\ queue_size = 1
    /\ preload_ahead = 1
    /\ InitState

\* one session of a user who has an unseen word; questions are fetched
\* through the route while the worker preloads
InitQuestion ==
    /\ scope = [callers |-> {1}, sessions |-> {1}, users |-> {1},
                words |-> {1}, kinds |-> {ServiceExplanation},
                horizon |-> 1, starts |-> 1, wedge |-> FALSE,
                capacity |-> CacheCapacity, reliable |-> FALSE,
                user_words |-> [w \in {1} |-> Unseen]]
    /\ queue_size = 2
    /\ preload_ahead = 2
    /\ InitState

\* a consumer and a reader of the status on one session whose worker
\* generates statement by statement; the service answers or raises
InitGenerate ==
    /\ scope = [callers |-> {1, 2}, sessions |-> {1}, users |-> {1},
                words |-> {1}, kinds |-> {ServiceExplanation, MockExplanation},
                horizon |-> 0, starts |-> 1, wedge |-> FALSE,
                capacity |-> CacheCapacity, reliable |-> FALSE,
                user_words |-> <<>>]
    /\ queue_size = 2
    /\ preload_ahead = 2
    /\ InitState

\* one session, started once, with two consumers; the worker never runs out
\* of words; the threshold is below or at the capacity
InitThrottle ==
    /\ scope = [callers |-> {1, 2}, sessions |-> {1}, users |-> {1},
                words |-> {1}, kinds |-> {ServiceExplanation},
                horizon |-> 0, starts |-> 1, wedge |-> FALSE,
                capacity |-> CacheCapacity, reliable |-> TRUE,
                user_words |-> <<>>]
    /\ queue_size = 2
    /\ preload_ahead \in {1, 2}
    /\ InitState

\* one session started once and stopped; the join of stop times out while
\* the worker is inside generation
InitCancel ==
    /\ scope = [callers |-> {1, 2}, sessions |-> {1}, users |-> {1},
                words |-> {1}, kinds |-> {ServiceExplanation},
                horizon |-> 0, starts |-> 1, wedge |-> FALSE,
                capacity |-> CacheCapacity, reliable |-> FALSE,
                user_words |-> <<>>]
    /\ queue_size = 2
    /\ preload_ahead = 2
    /\ InitState

\* filler sentences are generated for two words, by two generations
InitSentence ==
    /\ scope = [callers |-> {1, 2}, sessions |-> {1}, users |-> {1},
                words |-> Words, kinds |-> {ServiceExplanation},
                horizon |-> 0, starts |-> 1, wedge |-> FALSE,
                capacity |-> CacheCapacity, reliable |-> FALSE,
                user_words |-> <<>>]
    /\ queue_size = 1
    /\ preload_ahead = 1
    /\ InitState

\* ---- helpers for the request threads --------------------------------------
Goto(t, p) == pc' = [pc EXCEPT ![t] = p]

Done(t, r) ==
    /\ pc' = [pc EXCEPT ![t] = "done"]
    /\ fr' = [fr EXCEPT ![t] = NoFrame]
    /\ ret' = [ret EXCEPT ![t] = r]

Idle(t) == t \in scope.callers /\ pc[t] = "idle"

\* ---- start_session_preloader ----------------------------------------------
\* line 60: the membership test, and the early return
start_check_unguarded(t, s, u) ==
    /\ Idle(t)
    /\ nextAlloc <= scope.starts
    /\ Goto(t, "start_queue")
    /\ fr' = [fr EXCEPT ![t] = [NoFrame EXCEPT !.sid = s, !.arg = u, !.k = nextAlloc]]
    /\ nextAlloc' = nextAlloc + 1
    /\ UNCHANGED <<config, store, cleanup, now, registries, deque, lock, event, wk, produced,
                   explanation_cache, ret, returned>>

start_check(t, s, u) ==
    /\ Idle(t)
    /\ IF Has(preload_threads, s)
       THEN /\ Done(t, [Returns("start", s) EXCEPT !.arg = u])
            /\ UNCHANGED <<config, store, cleanup, now, registries, heap, produced,
                           explanation_cache, returned>>
       ELSE /\ nextAlloc <= scope.starts
            /\ Goto(t, "start_queue")
            /\ fr' = [fr EXCEPT ![t] = [NoFrame EXCEPT !.sid = s, !.arg = u,
                                                        !.k = nextAlloc]]
            /\ nextAlloc' = nextAlloc + 1
            /\ UNCHANGED <<config, store, cleanup, now, registries, deque, lock, event, wk,
                           produced, explanation_cache, ret, returned>>

\* line 65
start_queue(t) ==
    /\ pc[t] = "start_queue"
    /\ question_queues' = [question_queues EXCEPT ![fr[t].sid] = fr[t].k]
    /\ deque' = Reclaim([deque EXCEPT ![fr[t].k] = <<>>], question_queues', pc, fr)
    /\ Goto(t, "start_lock")
    /\ UNCHANGED <<config, store, cleanup, now, session_locks, preload_threads, stop_events,
                   lock, event, wk, nextAlloc, produced, explanation_cache,
                   fr, ret, returned>>

\* line 66
start_lock(t) ==
    /\ pc[t] = "start_lock"
    /\ session_locks' = [session_locks EXCEPT ![fr[t].sid] = fr[t].k]
    /\ Goto(t, "start_event")
    /\ UNCHANGED <<config, store, cleanup, now, question_queues, preload_threads, stop_events,
                   heap, produced, explanation_cache, fr, ret, returned>>

\* line 67
start_event(t) ==
    /\ pc[t] = "start_event"
    /\ stop_events' = [stop_events EXCEPT ![fr[t].sid] = fr[t].k]
    /\ event' = ReclaimEvent([event EXCEPT ![fr[t].k] = FALSE], stop_events')
    /\ Goto(t, "start_thread")
    /\ UNCHANGED <<config, store, cleanup, now, question_queues, session_locks, preload_threads,
                   deque, lock, wk, nextAlloc, produced, explanation_cache,
                   fr, ret, returned>>

\* lines 70-76: the Thread object, bound to (session_id, user_id)
start_thread(t) ==
    /\ pc[t] = "start_thread"
    /\ preload_threads' = [preload_threads EXCEPT ![fr[t].sid] = fr[t].k]
    /\ wk' = [wk EXCEPT ![fr[t].k] = [NoWorker EXCEPT !.sid = fr[t].sid,
                                                      !.uid = fr[t].arg,
                                                      !.pc = "unstarted"]]
    /\ Goto(t, "start_run")
    /\ UNCHANGED <<config, store, cleanup, now, question_queues, session_locks, stop_events,
                   deque, lock, event, nextAlloc, produced, explanation_cache,
                   fr, ret, returned>>

\* line 77: thread.start()
start_run(t) ==
    /\ pc[t] = "start_run"
    /\ wk' = [wk EXCEPT ![fr[t].k].pc = "loop"]
    /\ Done(t, [Returns("start", fr[t].sid) EXCEPT !.arg = fr[t].arg])
    /\ UNCHANGED <<config, store, cleanup, now, registries, deque, lock, event, nextAlloc,
                   produced, explanation_cache, returned>>

\* ---- stop_session_preloader -----------------------------------------------
\* line 83
stop_check(t, s) ==
    /\ Idle(t)
    /\ IF ~Has(preload_threads, s)
       THEN Done(t, Returns("stop", s))
       ELSE /\ Goto(t, "stop_has_event")
            /\ fr' = [fr EXCEPT ![t] = [NoFrame EXCEPT !.sid = s]]
            /\ UNCHANGED ret
    /\ UNCHANGED <<config, store, cleanup, now, registries, heap, produced, explanation_cache,
                   returned>>

\* line 87
stop_has_event(t) ==
    /\ pc[t] = "stop_has_event"
    /\ Goto(t, IF Has(stop_events, fr[t].sid) THEN "stop_set" ELSE "stop_thread")
    /\ UNCHANGED <<config, store, cleanup, now, registries, heap, produced, explanation_cache,
                   fr, ret, returned>>

\* line 88: self.stop_events[session_id].set()
stop_set(t) ==
    /\ pc[t] = "stop_set"
    /\ IF Has(stop_events, fr[t].sid)
       THEN /\ event' = [event EXCEPT ![stop_events[fr[t].sid]] = TRUE]
            /\ Goto(t, "stop_thread")
            /\ UNCHANGED <<fr, ret>>
       ELSE /\ Done(t, Raises("stop", fr[t].sid))
            /\ UNCHANGED event
    /\ UNCHANGED <<config, store, cleanup, now, registries, deque, lock, wk, nextAlloc,
                   produced, explanation_cache, returned>>

\* lines 91-92
stop_thread(t) ==
    /\ pc[t] = "stop_thread"
    /\ LET k == preload_threads[fr[t].sid] IN
       /\ fr' = [fr EXCEPT ![t].k = k]
       /\ Goto(t, IF k # 0 /\ is_alive(k) THEN "stop_join" ELSE "stop_pop_queue")
    /\ UNCHANGED <<config, store, cleanup, now, registries, heap, produced, explanation_cache,
                   ret, returned>>

\* line 93: thread.join(timeout=5.0) returns when the worker has finished, or
\* after 5 seconds.  The worker's sleeps last at most 2 seconds and its lock
\* sections are short, so the wait times out only while the worker is inside
\* _generate_question (the word-store query and the external call).
\* A specification in which the worker may stall anywhere (scope.wedge) lets
\* the timeout end the wait in every position of the worker.
join_waits(k) == ~is_alive(k)

join_returns(k) == ~is_alive(k) \/ wk[k].pc = "generate" \/ scope.wedge

stop_join_abandon(t) ==
    /\ pc[t] = "stop_join"
    /\ join_returns(fr[t].k)
    /\ IF is_alive(fr[t].k)
       THEN Done(t, Returns("stop", fr[t].sid))
       ELSE Goto(t, "stop_pop_queue") /\ UNCHANGED <<fr, ret>>
    /\ UNCHANGED <<config, store, cleanup, now, registries, heap, produced, explanation_cache,
                   returned>>

stop_join(t) ==
    /\ pc[t] = "stop_join"
    /\ join_returns(fr[t].k)
    /\ Goto(t, "stop_pop_queue")
    /\ UNCHANGED <<config, store, cleanup, now, registries, heap, produced, explanation_cache,
                   fr, ret, returned>>

\* line 96
stop_pop_queue(t) ==
    /\ pc[t] = "stop_pop_queue"
    /\ question_queues' = [question_queues EXCEPT ![fr[t].sid] = 0]
    /\ deque' = Reclaim(deque, question_queues', pc, fr)
    /\ Goto(t, "stop_pop_lock")
    /\ UNCHANGED <<config, store, cleanup, now, session_locks, preload_threads, stop_events,
                   lock, event, wk, nextAlloc, produced, explanation_cache,
                   fr, ret, returned>>

\* line 97
stop_pop_lock(t) ==
    /\ pc[t] = "stop_pop_lock"
    /\ session_locks' = [session_locks EXCEPT ![fr[t].sid] = 0]
    /\ Goto(t, "stop_pop_thread")
    /\ UNCHANGED <<config, store, cleanup, now, question_queues, preload_threads, stop_events,
                   heap, produced, explanation_cache, fr, ret, returned>>

\* line 98
stop_pop_thread(t) ==
    /\ pc[t] = "stop_pop_thread"
    /\ preload_threads' = [preload_threads EXCEPT ![fr[t].sid] = 0]
    /\ Goto(t, "stop_pop_event")
    /\ UNCHANGED <<config, store, cleanup, now, question_queues, session_locks, stop_events,
                   heap, produced, explanation_cache, fr, ret, returned>>

\* line 99
stop_pop_event(t) ==
    /\ pc[t] = "stop_pop_event"
    /\ stop_events' = [stop_events EXCEPT ![fr[t].sid] = 0]
    /\ event' = ReclaimEvent(event, stop_events')
    /\ Done(t, Returns("stop", fr[t].sid))
    /\ UNCHANGED <<config, store, cleanup, now, question_queues, session_locks, preload_threads,
                   deque, lock, wk, nextAlloc, produced, explanation_cache,
                   returned>>

\* ---- app.py: cleanup_preloaders ---------------------------------------------
\* the first key only
FirstKey(reg) ==
    {s \in Sessions : Has(reg, s) /\ \A x \in Sessions : Has(reg, x) => s <= x}

\* app.py line 966: list(question_preloader.preload_threads.keys())
Keys(reg) == {s \in Sessions : Has(reg, s)}

\* app.py lines 963-966: cleanup_preloaders begins (from signal_handler, line
\* 973, or from atexit, line 977) and lists the session ids
cleanup_preloaders(t) ==
    /\ Idle(t)
    /\ cleanup.by = 0
    /\ cleanup.runs < MaxCleanups
    /\ cleanup' = [by |-> t, began |-> Keys(preload_threads),
                   todo |-> Keys(preload_threads), called |-> {},
                   runs |-> cleanup.runs + 1]
    /\ Goto(t, "cleanup_loop")
    /\ UNCHANGED <<config, store, now, registries, heap, produced,
                   explanation_cache, fr, ret, returned>>

\* app.py line 967: stop_session_preloader(session_id) for the next id of
\* the list; line 83 of the preloader is the first statement of the call
cleanup_stop(t, s) ==
    /\ pc[t] = "cleanup_loop"
    /\ s \in cleanup.todo
    /\ cleanup' = [cleanup EXCEPT !.todo = @ \ {s}, !.called = @ \cup {s}]
    /\ IF ~Has(preload_threads, s)
       THEN Done(t, Returns("stop", s))
       ELSE /\ Goto(t, "stop_has_event")
            /\ fr' = [fr EXCEPT ![t] = [NoFrame EXCEPT !.sid = s]]
            /\ UNCHANGED ret
    /\ UNCHANGED <<config, store, now, registries, heap, produced,
                   explanation_cache, returned>>

\* the call of line 967 returns into the loop, or its exception leaves
\* cleanup_preloaders
cleanup_resume(t) ==
    /\ pc[t] = "done"
    /\ cleanup.by = t
    /\ ret[t].op = "stop"
    /\ IF ret[t].raised
       THEN /\ Done(t, Raises("cleanup", 0))
            /\ cleanup' = [cleanup EXCEPT !.by = 0]
       ELSE /\ Goto(t, "cleanup_loop")
            /\ ret' = [ret EXCEPT ![t] = NoRet]
            /\ UNCHANGED <<fr, cleanup>>
    /\ UNCHANGED <<config, store, now, registries, heap, produced,
                   explanation_cache, returned>>

\* app.py line 968: the list is exhausted
cleanup_completed(t) ==
    /\ pc[t] = "cleanup_loop"
    /\ cleanup.todo = {}
    /\ cleanup' = [cleanup EXCEPT !.by = 0]
    /\ Done(t, Returns("cleanup", 0))
    /\ UNCHANGED <<config, store, now, registries, heap, produced,
                   explanation_cache, returned>>

\* ---- get_next_question -----------------------------------------------------
\* line 105
next_check_unguarded(t, s) ==
    /\ Idle(t)
    /\ Goto(t, "next_lookup")
    /\ fr' = [fr EXCEPT ![t] = [NoFrame EXCEPT !.sid = s]]
    /\ UNCHANGED <<config, store, cleanup, now, registries, heap, produced, explanation_cache,
                   ret, returned>>

next_check(t, s) ==
    /\ Idle(t)
    /\ IF ~Has(question_queues, s)
       THEN Done(t, Returns("next", s))
       ELSE /\ Goto(t, "next_lookup")
            /\ fr' = [fr EXCEPT ![t] = [NoFrame EXCEPT !.sid = s]]
            /\ UNCHANGED ret
    /\ UNCHANGED <<config, store, cleanup, now, registries, heap, produced, explanation_cache,
                   returned>>

\* line 108: self.session_locks[session_id], a KeyError when the key is gone
next_lookup(t) ==
    /\ pc[t] = "next_lookup"
    /\ IF Has(session_locks, fr[t].sid)
       THEN /\ fr' = [fr EXCEPT ![t].lk = session_locks[fr[t].sid]]
            /\ Goto(t, "next_acquire")
            /\ UNCHANGED ret
       ELSE Done(t, Raises("next", fr[t].sid))
    /\ UNCHANGED <<config, store, cleanup, now, registries, heap, produced, explanation_cache,
                   returned>>

\* line 108: the `with` statement acquires the lock
next_acquire(t) ==
    /\ pc[t] = "next_acquire"
    /\ lock[fr[t].lk] = 0
    /\ lock' = [lock EXCEPT ![fr[t].lk] = t]
    /\ Goto(t, "next_evict")
    /\ UNCHANGED <<config, store, cleanup, now, registries, deque, event, wk, nextAlloc,
                   produced, explanation_cache, fr, ret, returned>>

\* lines 109-115: the queue of the session, and the eviction loop
next_evict(t) ==
    /\ pc[t] = "next_evict"
    /\ IF Has(question_queues, fr[t].sid)
       THEN LET k == question_queues[fr[t].sid] IN
            /\ deque' = [deque EXCEPT ![k] = EvictExpired(deque[k], now)]
            /\ fr' = [fr EXCEPT ![t].k = k, ![t].n = now]
            /\ Goto(t, "next_pop")
            /\ UNCHANGED <<lock, ret>>
       ELSE /\ lock' = [lock EXCEPT ![fr[t].lk] = 0]
            /\ Done(t, Raises("next", fr[t].sid))
            /\ UNCHANGED deque
    /\ UNCHANGED <<config, store, cleanup, now, registries, event, wk, nextAlloc, produced,
                   explanation_cache, returned>>

\* lines 118-123: pop the head if there is one; the lock is released on return
PeekHead(q) == <<Head(q), q>>
PopRight(q) == <<q[Len(q)], SubSeq(q, 1, Len(q) - 1)>>
PopLeft(q) == <<Head(q), Tail(q)>>

next_pop(t) ==
    /\ pc[t] = "next_pop"
    /\ lock' = [lock EXCEPT ![fr[t].lk] = 0]
    /\ LET k == fr[t].k IN
       IF deque[k] # <<>>
       THEN /\ Done(t, [Returns("next", fr[t].sid) EXCEPT
                            !.q = <<PopLeft(deque[k])[1]>>, !.at = fr[t].n])
            /\ deque' = Reclaim([deque EXCEPT ![k] = PopLeft(deque[k])[2]],
                                question_queues, pc', fr')
            /\ returned' = returned \cup {PopLeft(deque[k])[1].id}
       ELSE /\ Done(t, Returns("next", fr[t].sid))
            /\ deque' = Reclaim(deque, question_queues, pc', fr')
            /\ UNCHANGED returned
    /\ UNCHANGED <<config, store, cleanup, now, registries, event, wk, nextAlloc, produced,
                   explanation_cache>>

\* ---- get_queue_status -----------------------------------------------------
\* line 127
status_check(t, s) ==
    /\ Idle(t)
    /\ IF ~Has(question_queues, s)
       THEN Done(t, Returns("status", s))
       ELSE /\ Goto(t, "status_lookup")
            /\ fr' = [fr EXCEPT ![t] = [NoFrame EXCEPT !.sid = s]]
            /\ UNCHANGED ret
    /\ UNCHANGED <<config, store, cleanup, now, registries, heap, produced, explanation_cache,
                   returned>>

\* line 130: self.session_locks[session_id]
status_lookup(t) ==
    /\ pc[t] = "status_lookup"
    /\ IF Has(session_locks, fr[t].sid)
       THEN /\ fr' = [fr EXCEPT ![t].lk = session_locks[fr[t].sid]]
            /\ Goto(t, "status_acquire")
            /\ UNCHANGED ret
       ELSE Done(t, Raises("status", fr[t].sid))
    /\ UNCHANGED <<config, store, cleanup, now, registries, heap, produced, explanation_cache,
                   returned>>

status_acquire(t) ==
    /\ pc[t] = "status_acquire"
    /\ lock[fr[t].lk] = 0
    /\ lock' = [lock EXCEPT ![fr[t].lk] = t]
    /\ Goto(t, "status_len")
    /\ UNCHANGED <<config, store, cleanup, now, registries, deque, event, wk, nextAlloc,
                   produced, explanation_cache, fr, ret, returned>>

\* line 131: len(self.question_queues[session_id]), then the lock is released
status_len(t) ==
    /\ pc[t] = "status_len"
    /\ lock' = [lock EXCEPT ![fr[t].lk] = 0]
    /\ IF Has(question_queues, fr[t].sid)
       THEN /\ fr' = [fr EXCEPT ![t].n = Len(deque[question_queues[fr[t].sid]])]
            /\ Goto(t, "status_thread")
            /\ UNCHANGED ret
       ELSE Done(t, Raises("status", fr[t].sid))
    /\ UNCHANGED <<config, store, cleanup, now, registries, deque, event, wk, nextAlloc,
                   produced, explanation_cache, returned>>

\* lines 133-140
status_thread(t) ==
    /\ pc[t] = "status_thread"
    /\ LET k == preload_threads[fr[t].sid] IN
       Done(t, [Returns("status", fr[t].sid) EXCEPT
                    !.size = fr[t].n, !.alive = (k # 0 /\ is_alive(k))])
    /\ UNCHANGED <<config, store, cleanup, now, registries, heap, produced, explanation_cache,
                   returned>>

\* ---- get_explanation_for_word_id ------------------------------------------
\* the dict returned at lines 166-171
ExplanationOf(q) == <<[definition |-> q.expl, word |-> q.word_id]>>

MatchesHead(q, w) == {i \in 1..Len(q) : i = 1 /\ q[i].word_id = w}
Matches(q, w) == {i \in 1..Len(q) : q[i].word_id = w}

\* line 161: iter(self.question_queues) remembers the size of the dict
expl_iter(t, w) ==
    /\ Idle(t)
    /\ Goto(t, "expl_next")
    /\ fr' = [fr EXCEPT ![t] = [NoFrame EXCEPT !.arg = w,
                                               !.n = DictLen(question_queues),
                                               !.snap = <<question_queues, deque>>]]
    /\ UNCHANGED <<config, store, cleanup, now, registries, heap, produced, explanation_cache,
                   ret, returned>>

\* lines 161-162: the next key (a RuntimeError when the dict changed size),
\* and self.session_locks.get(session_id, threading.Lock())
expl_next(t) ==
    /\ pc[t] = "expl_next"
    /\ LET left == {s \in Sessions : Has(question_queues, s)} \ fr[t].vis IN
       IF DictLen(question_queues) # fr[t].n
       THEN Done(t, [Raises("expl", 0) EXCEPT !.arg = fr[t].arg])
       ELSE IF left = {}
       THEN Done(t, [Returns("expl", 0) EXCEPT !.arg = fr[t].arg])
       ELSE \E s \in left :
            /\ fr' = [fr EXCEPT ![t].sid = s, ![t].vis = @ \cup {s},
                                ![t].lk = session_locks[s]]
            /\ Goto(t, "expl_acquire")
            /\ UNCHANGED ret
    /\ UNCHANGED <<config, store, cleanup, now, registries, heap, produced, explanation_cache,
                   returned>>

\* line 162: a lock made by the default of .get is free (lk = 0)
expl_acquire(t) ==
    /\ pc[t] = "expl_acquire"
    /\ IF fr[t].lk = 0
       THEN UNCHANGED lock
       ELSE /\ lock[fr[t].lk] = 0
            /\ lock' = [lock EXCEPT ![fr[t].lk] = t]
    /\ Goto(t, "expl_scan")
    /\ UNCHANGED <<config, store, cleanup, now, registries, deque, event, wk, nextAlloc,
                   produced, explanation_cache, fr, ret, returned>>

\* lines 163-171: scan the queue of the session; the lock is released
expl_scan(t) ==
    /\ pc[t] = "expl_scan"
    /\ lock' = IF fr[t].lk = 0 THEN lock ELSE [lock EXCEPT ![fr[t].lk] = 0]
    /\ IF ~Has(question_queues, fr[t].sid)
       THEN Done(t, [Raises("expl", 0) EXCEPT !.arg = fr[t].arg])
       ELSE LET q == deque[question_queues[fr[t].sid]]
                m == Matches(q, fr[t].arg) IN
            IF m # {}
            THEN Done(t, [Returns("expl", 0) EXCEPT !.arg = fr[t].arg,
                     !.expl = ExplanationOf(q[CHOOSE i \in m : \A j \in m : i <= j])])
            ELSE /\ Goto(t, "expl_next")
                 /\ fr' = [fr EXCEPT ![t].lk = 0]
                 /\ UNCHANGED ret
    /\ UNCHANGED <<config, store, cleanup, now, registries, deque, event, wk, nextAlloc,
                   produced, explanation_cache, returned>>

\* ---- explanation cache -----------------------------------------------------

CacheKeys(c) == {c[i][1] : i \in 1..Len(c)}

\* get_cached_explanation: the payload stored under the key, <<>> if none
get_cached_explanation(c, key) ==
    IF key \in CacheKeys(c)
    THEN <<c[CHOOSE i \in 1..Len(c) : c[i][1] = key][2]>>
    ELSE <<>>

\* a cache that deletes, when over the limit, the key that follows the oldest
cache_explanation_second(c, key, val) ==
    LET put == IF key \in CacheKeys(c)
               THEN [i \in 1..Len(c) |-> IF c[i][1] = key THEN <<key, val>> ELSE c[i]]
               ELSE Append(c, <<key, val>>)
    IN IF Len(put) > scope.capacity THEN <<Head(put)>> \o Tail(Tail(put)) ELSE put

\* cache_explanation: dict assignment (a present key keeps its place), then
\* the first key in dict order is deleted when the dict holds more than the
\* limit
cache_explanation(c, key, val) ==
    LET put == IF key \in CacheKeys(c)
               THEN [i \in 1..Len(c) |-> IF c[i][1] = key THEN <<key, val>> ELSE c[i]]
               ELSE Append(c, <<key, val>>)
    IN IF Len(put) > scope.capacity THEN Tail(put) ELSE put

\* definition_service.get_word_explanation called by a route (app.py lines
\* 336 and 418).  Lines 39-48: the cache is read; a hit is returned, and in
\* mock mode (the service is never asked: MockExplanation is the only
\* answer) a miss returns the mock explanation.
explanation_lookup(t, w) ==
    /\ Idle(t)
    /\ LET hit == get_cached_explanation(explanation_cache, w) IN
       IF hit # <<>>
       THEN Done(t, [Returns("explain", 0) EXCEPT !.arg = w, !.expl = hit])
       ELSE IF scope.kinds = {MockExplanation}
       THEN Done(t, [Returns("explain", 0) EXCEPT !.arg = w,
                                                  !.expl = <<MockExplanation>>])
       ELSE /\ Goto(t, "explanation_call")
            /\ fr' = [fr EXCEPT ![t] = [NoFrame EXCEPT !.arg = w]]
            /\ UNCHANGED ret
    /\ UNCHANGED <<config, store, cleanup, now, registries, heap, produced, explanation_cache,
                   returned>>

\* lines 50-64: explain_word answers and the answer is cached (line 57), or
\* it raises and the mock explanation is returned, not cached
explanation_call(t) ==
    /\ pc[t] = "explanation_call"
    /\ \E e \in scope.kinds :
          /\ explanation_cache' =
                IF e = MockExplanation THEN explanation_cache
                ELSE cache_explanation(explanation_cache, fr[t].arg, e)
          /\ Done(t, [Returns("explain", 0) EXCEPT !.arg = fr[t].arg,
                                                   !.expl = <<e>>])
    /\ UNCHANGED <<config, store, cleanup, now, registries, heap, produced, returned>>

\* ---- _generate_question: the answer choices --------------------------------
\* texts of definitions and distractors; a bilingual pair is <<en, zh>>
Texts == {0, 1}

\* lines 259-262: the generic filler pair
Filler == <<0, 0>>

\* explanations as the service, the mock or the cache may give them: a
\* definition pair and two lists of distractors, of any lengths
Explanations ==
    [definition_en : Texts, definition_zh : Texts,
     distractors_en : UNION {[1..n -> Texts] : n \in 0..MaxDistractors},
     distractors_zh : UNION {[1..n -> Texts] : n \in 0..MaxDistractors}]

Min(a, b) == IF a <= b THEN a ELSE b

\* line 251: min(3, len(distractors_en), len(distractors_zh))
Used(x) == Min(3, Min(Len(x.distractors_en), Len(x.distractors_zh)))

\* choices built without the padding of lines 258-262
build_choices_unpadded(x) ==
    <<<<x.definition_en, x.definition_zh>>>>
        \o [i \in 1..Used(x) |-> <<x.distractors_en[i], x.distractors_zh[i]>>]

\* lines 247-262: the correct pair, the first distractor pairs, the filler
\* pair until there are 4
build_choices(x) ==
    <<<<x.definition_en, x.definition_zh>>>>
        \o [i \in 1..Used(x) |-> <<x.distractors_en[i], x.distractors_zh[i]>>]
        \o [i \in 1..(3 - Used(x)) |-> Filler]

\* line 264: random.shuffle gives any order
Shuffles(c) ==
    {[i \in 1..Len(c) |-> c[p[i]]] :
        p \in {f \in [1..Len(c) -> 1..Len(c)] :
                   \A i, j \in 1..Len(c) : f[i] = f[j] => i = j}}

\* lines 234-279 for one explanation: the choices and the correct answer of
\* the question
generate_choices(t, x) ==
    /\ Idle(t)
    /\ \E c \in Shuffles(build_choices(x)) :
          Done(t, [Returns("choices", 0) EXCEPT
                      !.expl = <<x>>,
                      !.q = <<[choices_i18n |-> c,
                               correct_answer_i18n |->
                                   <<x.definition_en, x.definition_zh>>]>>])
    /\ UNCHANGED <<config, store, cleanup, now, registries, heap, produced, explanation_cache,
                   returned>>

\* ---- _generate_sentence_with_word ---------------------------------------------
\* lines 310-316: the five templates; a sentence is a template filled with
\* the word
templates == 1..5

Sentence(i, w) == [template |-> i, word |-> w]

\* lines 308-317, called at line 244 when the explanation has no examples:
\* random.choice(templates) gives any of the sentences
generate_sentence_with_word(t, w) ==
    /\ Idle(t)
    /\ \E i \in templates :
          Done(t, [Returns("sentence", 0) EXCEPT !.arg = w,
                                                !.expl = <<Sentence(i, w)>>])
    /\ UNCHANGED <<config, store, cleanup, now, registries, heap, produced,
                   explanation_cache, returned>>

\* ---- _get_next_word_for_session ---------------------------------------------
\* app.py inserts the row of a session before it starts its preloading
SessionRow(s) == s \in scope.sessions

\* lines 297-298: the rows the WHERE clause keeps at time at
Candidates(uw, at) ==
    {w \in DOMAIN uw :
        /\ uw[w].in_wrongbook = 1 \/ uw[w].in_wrongbook = Null
        /\ uw[w].next_review = Null \/ uw[w].next_review <= at}

\* line 300: CASE WHEN uw.next_review IS NULL THEN 0 ELSE 1 END
NullsFirst(r) == IF r.next_review = Null THEN 0 ELSE 1

\* lines 299-301: row a is not after row b in the order of the query
NotAfter(a, b) ==
    \/ NullsFirst(a) < NullsFirst(b)
    \/ NullsFirst(a) = NullsFirst(b) /\ a.next_review <= b.next_review

\* lines 293-304: the words LIMIT 1 can give, RANDOM() deciding among ties
FirstRows(uw, at) ==
    {w \in Candidates(uw, at) :
        \A v \in Candidates(uw, at) : NotAfter(uw[w], uw[v])}

\* lines 285-306: the word selected for session s, 0 for None
get_next_word_for_session(t, s) ==
    /\ Idle(t)
    /\ IF ~SessionRow(s) \/ FirstRows(user_words, now) = {}
         THEN Done(t, [Returns("select", s) EXCEPT !.at = now])
         ELSE \E w \in FirstRows(user_words, now) :
                 Done(t, [Returns("select", s) EXCEPT !.arg = w, !.at = now])
    /\ UNCHANGED <<config, store, cleanup, now, registries, heap, produced, explanation_cache,
                   returned>>

\* ---- app.py: submit_answer ---------------------------------------------------
\* app.py lines 37-39: the SRS intervals, in days (a clock tick is a day)
get_srs_intervals == <<0, 1, 3, 7, 14>>

\* calculate_next_review with an index that never moves
calculate_next_review_flat(current_interval_index, is_correct, at) ==
    <<at + get_srs_intervals[current_interval_index + 1], current_interval_index>>

\* app.py lines 52-64: <<next_review, next_index>>; datetime.now() is at
calculate_next_review(current_interval_index, is_correct, at) ==
    LET next_index == IF is_correct
                      THEN Min(current_interval_index + 1,
                               Len(get_srs_intervals) - 1)
                      ELSE 0
    IN <<at + get_srs_intervals[next_index + 1], next_index>>

\* app.py lines 443-486: the user_words row after an answer
AnsweredRow(r, is_correct, at) ==
    IF r.row
    THEN IF is_correct
         THEN LET nr == calculate_next_review(r.srs_interval, TRUE, at) IN
              [row |-> TRUE, correct_count |-> r.correct_count + 1,
               srs_interval |-> nr[2],
               in_wrongbook |-> IF r.correct_count + 1 < 3 THEN 1 ELSE 0,
               next_review |-> nr[1]]
         ELSE LET nr == calculate_next_review(0, FALSE, at) IN
              [row |-> TRUE, correct_count |-> 0, srs_interval |-> nr[2],
               in_wrongbook |-> 1, next_review |-> nr[1]]
    ELSE IF is_correct
         THEN LET nr == calculate_next_review(0, TRUE, at) IN
              [row |-> TRUE, correct_count |-> 1, srs_interval |-> nr[2],
               in_wrongbook |-> 1, next_review |-> nr[1]]
         ELSE LET nr == calculate_next_review(0, FALSE, at) IN
              [row |-> TRUE, correct_count |-> 0, srs_interval |-> nr[2],
               in_wrongbook |-> 1, next_review |-> nr[1]]

\* app.py lines 390-496.  The explanation comes from a queued question of
\* the word (lines 407-410), else from get_word_explanation (lines 413-420:
\* the cache, the mock, or the service, whose answer is cached); the attempt
\* is recorded (lines 429-433) and the progress of the word updated (lines
\* 443-486) in one transaction (line 488).
submit_answer(t, s, w, is_correct) ==
    /\ Idle(t)
    /\ SessionRow(s)
    /\ w \in DOMAIN user_words
    /\ is_correct => user_words[w].correct_count < MaxCorrect
    /\ LET queued == \E x \in Sessions :
                        /\ Has(question_queues, x)
                        /\ Matches(deque[question_queues[x]], w) # {}
       IN IF queued \/ get_cached_explanation(explanation_cache, w) # <<>>
          THEN UNCHANGED explanation_cache
          ELSE \E e \in scope.kinds :
                  explanation_cache' =
                      IF e = MockExplanation THEN explanation_cache
                      ELSE cache_explanation(explanation_cache, w, e)
    /\ question_attempts' = question_attempts \cup {<<s, w>>}
    /\ user_words' = [user_words EXCEPT ![w] = AnsweredRow(@, is_correct, now)]
    /\ Done(t, [Returns("answer", s) EXCEPT !.arg = w, !.at = now,
                                            !.is_correct = is_correct])
    /\ UNCHANGED <<config, cleanup, now, registries, heap, produced, returned>>

\* app.py lines 253-260: a word due for review at time at: in the wrongbook
\* of the user, never reviewed or with a time of review that has come
Due(r, at) ==
    /\ r.row /\ r.in_wrongbook = 1
    /\ r.next_review = Null \/ r.next_review <= at

\* ---- app.py: get_question ----------------------------------------------------
\* app.py line 48: LEXIBOOST_MAX_QUESTIONS
max_questions_per_session == 50

\* lines 23-35: the fields of the dataclass PreloadedQuestion
PreloadedQuestionFields ==
    {"word_id", "word_txt", "level", "sentence", "choices_i18n",
     "correct_answer_i18n", "target_word", "explanation_en",
     "explanation_zh", "created_at"}

\* app.py lines 225-236: the attributes of the preloaded question the
\* handler reads
HandlerReads ==
    {"word_id", "target_word", "target_word_zh", "sentence", "choices_i18n",
     "correct_answer_i18n"}

\* app.py lines 213-217: the attempts of the session are below the limit
\* (one attempt is recorded per word and session)
BelowLimit(s) ==
    Cardinality({a \in question_attempts : a[1] = s}) < max_questions_per_session

\* app.py lines 243-280: the due words of the wrongbook and the unseen
\* words, without the words asked in the session
FallbackCandidates(s) ==
    {w \in DOMAIN user_words :
        /\ <<s, w>> \notin question_attempts
        /\ Due(user_words[w], now) \/ ~user_words[w].row}

\* the JSON body of a question: where it comes from, its word and the
\* explanation its sentence and choices are built from
QuestionBody(src, w, e) == [source |-> src, word_id |-> w, expl |-> e]

\* app.py lines 200-222: the session exists and is below its limit, and
\* get_next_question is called
get_question(t, s) ==
    /\ SessionRow(s)
    /\ BelowLimit(s)
    /\ next_check(t, s)

\* app.py lines 223-387, get_next_question having returned.  A preloaded
\* question is turned into the response (lines 225-236, an AttributeError
\* when an attribute read is no field of the dataclass); with none the
\* question is generated in the request (lines 238-387), from the
\* explanation of get_word_explanation, whose service answer is cached.
get_question_respond(t) ==
    /\ pc[t] = "done"
    /\ ret[t].op = "next"
    /\ LET s == ret[t].sid IN
       IF ret[t].raised
       THEN /\ Done(t, Raises("question", s))
            /\ UNCHANGED explanation_cache
       ELSE IF ret[t].q # <<>>
       THEN /\ IF HandlerReads \subseteq PreloadedQuestionFields
               THEN Done(t, [Returns("question", s) EXCEPT
                                !.q = <<QuestionBody("preloaded",
                                                     ret[t].q[1].word_id,
                                                     ret[t].q[1].expl)>>])
               ELSE Done(t, Raises("question", s))
            /\ UNCHANGED explanation_cache
       ELSE IF FallbackCandidates(s) = {}
       THEN /\ Done(t, Returns("question", s))
            /\ UNCHANGED explanation_cache
       ELSE \E w \in FallbackCandidates(s) :
            \E e \in (IF get_cached_explanation(explanation_cache, w) # <<>>
                      THEN {get_cached_explanation(explanation_cache, w)[1]}
                      ELSE scope.kinds) :
               /\ explanation_cache' =
                     IF \/ e = MockExplanation
                        \/ get_cached_explanation(explanation_cache, w) # <<>>
                     THEN explanation_cache
                     ELSE cache_explanation(explanation_cache, w, e)
               /\ Done(t, [Returns("question", s) EXCEPT
                               !.q = <<QuestionBody("fallback", w, e)>>])
    /\ UNCHANGED <<config, store, cleanup, now, registries, heap, produced,
                   returned>>

\* ---- _preload_worker --------------------------------------------------------
Worker(k, p) == wk[k].pc = p

WGoto(k, p) ==
    wk' = [wk EXCEPT ![k] = IF p = "dead" THEN [NoWorker EXCEPT !.pc = "dead"]
                            ELSE [@ EXCEPT !.pc = p, !.lk = 0, !.q = <<>>]]

\* a worker that a missing stop event does not end
worker_loop_retry(k) ==
    /\ Worker(k, "loop")
    /\ LET e == stop_events[wk[k].sid] IN
       IF e # 0 /\ event[e]
       THEN WGoto(k, "dead")
       ELSE WGoto(k, "lookup")
    /\ UNCHANGED <<config, store, cleanup, now, registries, deque, lock, event,
                   nextAlloc, produced, explanation_cache, request, returned>>

\* line 179: self.stop_events[session_id].is_set(); a KeyError here is caught
\* by the outer handler (line 204) and ends the worker
worker_loop(k) ==
    /\ Worker(k, "loop")
    /\ LET e == stop_events[wk[k].sid] IN
       IF e = 0 \/ event[e]
       THEN WGoto(k, "dead")
       ELSE WGoto(k, "lookup")
    /\ UNCHANGED <<config, store, cleanup, now, registries, deque, lock, event, nextAlloc,
                   produced, explanation_cache, request, returned>>

\* line 182: self.session_locks[session_id]; a KeyError inside the loop body
\* is caught at line 200 and the loop goes on after a sleep
worker_lookup(k) ==
    /\ Worker(k, "lookup")
    /\ LET l == session_locks[wk[k].sid] IN
       IF l = 0
       THEN WGoto(k, "loop")
       ELSE wk' = [wk EXCEPT ![k].pc = "acquire", ![k].lk = l]
    /\ UNCHANGED <<config, store, cleanup, now, registries, deque, lock, event, nextAlloc,
                   produced, explanation_cache, request, returned>>

worker_acquire(k) ==
    /\ Worker(k, "acquire")
    /\ lock[wk[k].lk] = 0
    /\ lock' = [lock EXCEPT ![wk[k].lk] = -k]
    /\ wk' = [wk EXCEPT ![k].pc = "size"]
    /\ UNCHANGED <<config, store, cleanup, now, registries, deque, event, nextAlloc, produced,
                   explanation_cache, request, returned>>

\* a worker that never finds the queue short
worker_size_idle(k) ==
    /\ Worker(k, "size")
    /\ lock' = [lock EXCEPT ![wk[k].lk] = 0]
    /\ WGoto(k, "loop")
    /\ UNCHANGED <<config, store, cleanup, now, registries, deque, event, nextAlloc, produced,
                   explanation_cache, request, returned>>

\* a worker that keeps the session lock while it generates
worker_size_locked(k) ==
    /\ Worker(k, "size")
    /\ LET d == question_queues[wk[k].sid] IN
       IF d = 0
       THEN WGoto(k, "loop") /\ lock' = [lock EXCEPT ![wk[k].lk] = 0]
       ELSE IF Len(deque[d]) < preload_ahead
       THEN wk' = [wk EXCEPT ![k].pc = "generate"] /\ UNCHANGED lock
       ELSE WGoto(k, "loop") /\ lock' = [lock EXCEPT ![wk[k].lk] = 0]
    /\ UNCHANGED <<config, store, cleanup, now, registries, deque, event,
                   nextAlloc, produced, explanation_cache, request, returned>>

\* a worker that generates whatever the length of the queue
worker_size_eager(k) ==
    /\ Worker(k, "size")
    /\ lock' = [lock EXCEPT ![wk[k].lk] = 0]
    /\ LET d == question_queues[wk[k].sid] IN
       IF d = 0
       THEN WGoto(k, "loop")
       ELSE WGoto(k, "generate")
    /\ UNCHANGED <<config, store, cleanup, now, registries, deque, event,
                   nextAlloc, produced, explanation_cache, request, returned>>

\* lines 183-198: the length of the queue, the lock released, and the choice
\* between generating and sleeping
worker_size(k) ==
    /\ Worker(k, "size")
    /\ lock' = [lock EXCEPT ![wk[k].lk] = 0]
    /\ LET d == question_queues[wk[k].sid] IN
       IF d = 0
       THEN WGoto(k, "loop")
       ELSE IF Len(deque[d]) < preload_ahead
       THEN WGoto(k, "generate")
       ELSE WGoto(k, "loop")
    /\ UNCHANGED <<config, store, cleanup, now, registries, deque, event, nextAlloc, produced,
                   explanation_cache, request, returned>>

\* The number of the next question.  Where generation goes on for ever
\* (scope.reliable: the word store always has a candidate and the service
\* always answers) the questions past MaxProduced share the last number.
NextId == IF produced < MaxProduced THEN produced + 1 ELSE MaxProduced

\* a worker that a failed generation ends
worker_generate_fatal(k) ==
    /\ Worker(k, "generate")
    /\ \/ /\ ~scope.reliable
          /\ WGoto(k, "dead")
          /\ UNCHANGED <<produced, explanation_cache>>
       \/ /\ produced < MaxProduced \/ scope.reliable
          /\ \E w \in scope.words :
             \E e \in (IF get_cached_explanation(explanation_cache, w) # <<>>
                       THEN {get_cached_explanation(explanation_cache, w)[1]}
                       ELSE scope.kinds) :
                /\ explanation_cache' = cache_explanation(explanation_cache, w, e)
                /\ produced' = NextId
                /\ wk' = [wk EXCEPT ![k].pc = "lookup2", ![k].q =
                            <<PreloadedQuestion(NextId, w, wk[k].uid, e, now)>>]
    /\ UNCHANGED <<config, store, cleanup, now, registries, deque, lock, event, nextAlloc,
                   request, returned>>

\* lines 209-283, _generate_question returning: no question (no candidate
\* word, or an exception, line 281), or a question for a word of the store.
\* definition_service.get_word_explanation answers from the cache when the
\* word is cached, else with the service's or the mock explanation, and
\* line 232 caches the answer.
worker_generate(k) ==
    /\ Worker(k, "generate")
    /\ \/ /\ ~scope.reliable
          /\ WGoto(k, "loop")
          /\ UNCHANGED <<produced, explanation_cache>>
       \/ /\ produced < MaxProduced \/ scope.reliable
          /\ \E w \in scope.words :
             \E e \in (IF get_cached_explanation(explanation_cache, w) # <<>>
                       THEN {get_cached_explanation(explanation_cache, w)[1]}
                       ELSE scope.kinds) :
                /\ explanation_cache' = cache_explanation(explanation_cache, w, e)
                /\ produced' = NextId
                /\ wk' = [wk EXCEPT ![k].pc = "lookup2", ![k].q =
                            <<PreloadedQuestion(NextId, w, wk[k].uid, e, now)>>]
    /\ UNCHANGED <<config, store, cleanup, now, registries, deque, lock, event, nextAlloc,
                   request, returned>>

\* ---- _generate_question, statement by statement ------------------------------
\* lines 212-227: the word-store query returns: no candidate (or an
\* exception, line 281), or a word
generate_select(k) ==
    /\ Worker(k, "generate")
    /\ \/ /\ ~scope.reliable
          /\ WGoto(k, "loop")
       \/ /\ produced < MaxProduced \/ scope.reliable
          /\ \E w \in scope.words :
                wk' = [wk EXCEPT ![k].pc = "cache_get", ![k].q =
                          <<PreloadedQuestion(0, w, wk[k].uid, 0, now)>>]
    /\ UNCHANGED <<config, store, cleanup, now, registries, deque, lock, event,
                   nextAlloc, produced, explanation_cache, request, returned>>

\* lines 145, 151: `with self.cache_lock` acquires the lock, in
\* get_cached_explanation (definition_service.py line 41), and in
\* cache_explanation (definition_service.py line 57, and line 232)
generate_cache_acquire(k) ==
    /\ wk[k].pc \in {"cache_get", "cache_put_service", "cache_put"}
    /\ lock[CacheLock] = 0
    /\ lock' = [lock EXCEPT ![CacheLock] = -k]
    /\ wk' = [wk EXCEPT ![k].pc =
                 CASE wk[k].pc = "cache_get" -> "cache_get_locked"
                   [] wk[k].pc = "cache_put_service" -> "cache_put_service_locked"
                   [] wk[k].pc = "cache_put" -> "cache_put_locked"]
    /\ UNCHANGED <<config, store, cleanup, now, registries, deque, event,
                   nextAlloc, produced, explanation_cache, request, returned>>

\* lines 145-146 and definition_service.py lines 41-48: the cache is read
\* and the lock released; a hit is returned, in mock mode a miss gives the
\* mock explanation, else the external service is called
generate_cache_get(k) ==
    /\ Worker(k, "cache_get_locked")
    /\ lock' = [lock EXCEPT ![CacheLock] = 0]
    /\ LET hit == get_cached_explanation(explanation_cache, wk[k].q[1].word_id) IN
       IF hit # <<>>
       THEN wk' = [wk EXCEPT ![k].pc = "cache_put", ![k].q[1].expl = hit[1]]
       ELSE IF scope.kinds = {MockExplanation}
       THEN wk' = [wk EXCEPT ![k].pc = "cache_put",
                             ![k].q[1].expl = MockExplanation]
       ELSE wk' = [wk EXCEPT ![k].pc = "explain_word"]
    /\ UNCHANGED <<config, store, cleanup, now, registries, deque, event,
                   nextAlloc, produced, explanation_cache, request, returned>>

\* definition_service.py lines 50-64: explain_word returns, or raises and
\* the mock explanation is the answer
generate_explain_word(k) ==
    /\ Worker(k, "explain_word")
    /\ \E e \in scope.kinds :
          wk' = [wk EXCEPT ![k].pc = IF e = MockExplanation THEN "cache_put"
                                     ELSE "cache_put_service",
                           ![k].q[1].expl = e]
    /\ UNCHANGED <<config, store, cleanup, now, registries, deque, lock, event,
                   nextAlloc, produced, explanation_cache, request, returned>>

\* definition_service.py line 57: the answer of the service is cached
generate_cache_put_service(k) ==
    /\ Worker(k, "cache_put_service_locked")
    /\ lock' = [lock EXCEPT ![CacheLock] = 0]
    /\ explanation_cache' = cache_explanation(explanation_cache,
                                              wk[k].q[1].word_id, wk[k].q[1].expl)
    /\ wk' = [wk EXCEPT ![k].pc = "cache_put"]
    /\ UNCHANGED <<config, store, cleanup, now, registries, deque, event,
                   nextAlloc, produced, request, returned>>

\* lines 232-279: the explanation is cached and the question built
generate_cache_put(k) ==
    /\ Worker(k, "cache_put_locked")
    /\ lock' = [lock EXCEPT ![CacheLock] = 0]
    /\ explanation_cache' = cache_explanation(explanation_cache,
                                              wk[k].q[1].word_id, wk[k].q[1].expl)
    /\ produced' = NextId
    /\ wk' = [wk EXCEPT ![k].pc = "lookup2", ![k].q[1].id = NextId]
    /\ UNCHANGED <<config, store, cleanup, now, registries, deque, event,
                   nextAlloc, request, returned>>

\* line 190: self.session_locks[session_id]
worker_lookup2(k) ==
    /\ Worker(k, "lookup2")
    /\ LET l == session_locks[wk[k].sid] IN
       IF l = 0
       THEN WGoto(k, "loop")
       ELSE wk' = [wk EXCEPT ![k].pc = "acquire2", ![k].lk = l]
    /\ UNCHANGED <<config, store, cleanup, now, registries, deque, lock, event, nextAlloc,
                   produced, explanation_cache, request, returned>>

worker_acquire2(k) ==
    /\ Worker(k, "acquire2")
    /\ lock[wk[k].lk] = 0
    /\ lock' = [lock EXCEPT ![wk[k].lk] = -k]
    /\ wk' = [wk EXCEPT ![k].pc = "append"]
    /\ UNCHANGED <<config, store, cleanup, now, registries, deque, event, nextAlloc, produced,
                   explanation_cache, request, returned>>

\* a worker that appends to the queue of any session
worker_append_any(k) ==
    /\ Worker(k, "append")
    /\ lock' = [lock EXCEPT ![wk[k].lk] = 0]
    /\ \E s \in Sessions :
          LET d == question_queues[s] IN
          IF d = 0
          THEN /\ WGoto(k, "loop")
               /\ UNCHANGED deque
          ELSE /\ deque' = [deque EXCEPT ![d] = DequeAppend(deque[d], wk[k].q[1], queue_size)]
               /\ WGoto(k, "log")
    /\ UNCHANGED <<config, store, cleanup, now, registries, event, nextAlloc, produced,
                   explanation_cache, request, returned>>

\* line 191: self.question_queues[session_id].append(question)
worker_append(k) ==
    /\ Worker(k, "append")
    /\ lock' = [lock EXCEPT ![wk[k].lk] = 0]
    /\ LET d == question_queues[wk[k].sid] IN
       IF d = 0
       THEN /\ WGoto(k, "loop")
            /\ UNCHANGED deque
       ELSE /\ deque' = [deque EXCEPT ![d] = DequeAppend(deque[d], wk[k].q[1], queue_size)]
            /\ WGoto(k, "log")
    /\ UNCHANGED <<config, store, cleanup, now, registries, event, nextAlloc, produced,
                   explanation_cache, request, returned>>

\* line 192: the f-string reads len(self.question_queues[session_id]) with
\* no lock held; a KeyError is caught at line 200
worker_log(k) ==
    /\ Worker(k, "log")
    /\ WGoto(k, "loop")
    /\ UNCHANGED <<config, store, cleanup, now, registries, deque, lock, event, nextAlloc,
                   produced, explanation_cache, request, returned>>

\* ---- time -------------------------------------------------------------------
Tick ==
    /\ now < scope.horizon
    /\ now' = now + 1
    /\ UNCHANGED <<config, store, cleanup, registries, heap, produced, explanation_cache,
                   request, returned>>

\* the caller takes the outcome of its call
call_return(t) ==
    /\ pc[t] = "done"
    /\ pc' = [pc EXCEPT ![t] = "idle"]
    /\ ret' = [ret EXCEPT ![t] = NoRet]
    /\ UNCHANGED <<config, store, cleanup, now, registries, heap, produced, explanation_cache,
                   fr, returned>>

\* ---- specification ----------------------------------------------------------
Lifecycle(t) ==
    \/ \E s \in scope.sessions, u \in scope.users : start_check(t, s, u)
    \/ start_queue(t)
    \/ start_lock(t)
    \/ start_event(t)
    \/ start_thread(t)
    \/ start_run(t)
    \/ \E s \in scope.sessions : stop_check(t, s)
    \/ stop_has_event(t)
    \/ stop_set(t)
    \/ stop_thread(t)
    \/ stop_join(t)
    \/ stop_pop_queue(t)
    \/ stop_pop_lock(t)
    \/ stop_pop_thread(t)
    \/ stop_pop_event(t)
    \/ call_return(t)

Consume(t) ==
    \/ \E s \in scope.sessions : next_check(t, s)
    \/ next_lookup(t)
    \/ next_acquire(t)
    \/ next_evict(t)
    \/ next_pop(t)

Observe(t) ==
    \/ \E s \in scope.sessions : status_check(t, s)
    \/ status_lookup(t)
    \/ status_acquire(t)
    \/ status_len(t)
    \/ status_thread(t)
    \/ \E w \in scope.words : expl_iter(t, w)
    \/ expl_next(t)
    \/ expl_acquire(t)
    \/ expl_scan(t)

preload_worker(k) ==
    \/ worker_loop(k)
    \/ worker_lookup(k)
    \/ worker_acquire(k)
    \/ worker_size(k)
    \/ worker_generate(k)
    \/ worker_lookup2(k)
    \/ worker_acquire2(k)
    \/ worker_append(k)
    \/ worker_log(k)

Next ==
    \/ \E t \in Threads : Lifecycle(t)
    \/ \E t \in Threads : Consume(t)
    \/ \E t \in Threads : Observe(t)
    \/ \E k \in Allocs : preload_worker(k)
    \/ Tick

\* the session lifecycle, the consumer and the workers alone: the operations
\* that read (get_queue_status, get_explanation_for_word_id) change nothing
\* but the holder of a lock
NextLifecycle ==
    \/ \E t \in Threads : Lifecycle(t)
    \/ \E t \in Threads : Consume(t)
    \/ \E k \in Allocs : preload_worker(k)

\* request threads whose calls overlap
Spec == Init /\ [][Next]_vars

\* calls issued one after the other
SpecSeq == InitSeq /\ [][Next]_vars

\* overlapping start and stop calls
SpecDup == InitDup /\ [][NextLifecycle]_vars

\* calls issued one after the other, two sessions
SpecTwo == InitTwo /\ [][Next]_vars

\* the statements of stop_session_preloader after the membership test
StopPcs == {"stop_has_event", "stop_set", "stop_thread", "stop_join",
            "stop_pop_queue", "stop_pop_lock", "stop_pop_thread",
            "stop_pop_event"}

\* a request thread inside stop_session_preloader runs its next statement
stop_step(t) ==
    \/ stop_has_event(t)
    \/ stop_set(t)
    \/ stop_thread(t)
    \/ stop_join(t)
    \/ stop_pop_queue(t)
    \/ stop_pop_lock(t)
    \/ stop_pop_thread(t)
    \/ stop_pop_event(t)

\* start and stop calls and the workers
NextStop ==
    \/ \E t \in Threads : Lifecycle(t)
    \/ \E k \in Allocs : preload_worker(k)

\* The request threads are scheduled (weak fairness of each statement of
\* stop); nothing is assumed of the worker: it may stay for ever inside the
\* external call, or stall while it holds or waits for the session lock.
SpecStop ==
    /\ InitStop
    /\ [][NextStop]_vars
    /\ \A t \in Threads : WF_vars(stop_step(t))

\* start_session_preloader alone
Start(t) ==
    \/ \E s \in scope.sessions, u \in scope.users : start_check(t, s, u)
    \/ start_queue(t)
    \/ start_lock(t)
    \/ start_event(t)
    \/ start_thread(t)
    \/ start_run(t)

\* the synchronous path of the routes to an explanation
Explain(t) ==
    \/ \E w \in scope.words : explanation_lookup(t, w)
    \/ explanation_call(t)

\* a started session whose worker generates, and a route that asks for
\* explanations
NextCache ==
    \/ \E t \in Threads : Start(t)
    \/ \E t \in Threads : Explain(t)
    \/ \E t \in Threads : call_return(t)
    \/ \E k \in Allocs : preload_worker(k)

SpecCache == InitCache /\ [][NextCache]_vars

\* one session is started and its questions are consumed while time passes
NextServe ==
    \/ \E t \in Threads : Start(t)
    \/ \E t \in Threads : Consume(t)
    \/ \E t \in Threads : call_return(t)
    \/ \E k \in Allocs : preload_worker(k)
    \/ Tick

SpecServe == InitServe /\ [][NextServe]_vars

\* every call of the external service raises
SpecFail == InitFail /\ [][Next]_vars

\* app.py lines 164-189: start_session creates the session row of a user and
\* starts the preloader with that session id and that user id, so a session
\* id is only ever started for the user it belongs to (here user s for
\* session s)
Owner(s) == s

StartOwned(t) ==
    \/ \E s \in scope.sessions : start_check(t, s, Owner(s))
    \/ start_queue(t)
    \/ start_lock(t)
    \/ start_event(t)
    \/ start_thread(t)
    \/ start_run(t)

Stop(t) ==
    \/ \E s \in scope.sessions : stop_check(t, s)
    \/ stop_step(t)

\* sessions started by their owners, stopped and consumed
NextOwned ==
    \/ \E t \in Threads : StartOwned(t)
    \/ \E t \in Threads : Stop(t)
    \/ \E t \in Threads : Consume(t)
    \/ \E t \in Threads : call_return(t)
    \/ \E k \in Allocs : preload_worker(k)

SpecOwned == InitOwned /\ [][NextOwned]_vars

\* a session is started and nothing is consumed
NextLive ==
    \/ \E t \in Threads : Start(t)
    \/ \E t \in Threads : call_return(t)
    \/ \E k \in Allocs : preload_worker(k)
    \/ Tick

\* the worker thread is scheduled: weak fairness of its loop
SpecLive ==
    /\ InitLive
    /\ [][NextLive]_vars
    /\ \A k \in Allocs : WF_vars(preload_worker(k))

\* the choices of a question are built from an explanation
NextChoices ==
    \/ \E t \in Threads, x \in Explanations : generate_choices(t, x)
    \/ \E t \in Threads : call_return(t)

SpecChoices == InitChoices /\ [][NextChoices]_vars

\* words are selected while time passes
NextSelect ==
    \/ \E t \in Threads, s \in scope.sessions : get_next_word_for_session(t, s)
    \/ \E t \in Threads : call_return(t)
    \/ Tick

SpecSelect == InitSelect /\ [][NextSelect]_vars

\* answers are submitted and words are selected while days pass
NextAttempt ==
    \/ \E t \in Threads, s \in scope.sessions, w \in scope.words,
          c \in BOOLEAN : submit_answer(t, s, w, c)
    \/ \E t \in Threads, s \in scope.sessions : get_next_word_for_session(t, s)
    \/ \E t \in Threads : call_return(t)
    \/ Tick

SpecAttempt == InitAttempt /\ [][NextAttempt]_vars

\* sessions are started, and the shutdown cleanup stops them; no other call
\* of the session lifecycle overlaps the cleanup
NextShutdown ==
    \/ \E t \in Threads : Start(t)
    \/ \E t \in Threads : cleanup_preloaders(t)
    \/ \E t \in Threads, s \in Sessions : cleanup_stop(t, s)
    \/ \E t \in Threads : stop_step(t)
    \/ \E t \in Threads : cleanup_resume(t)
    \/ \E t \in Threads : cleanup_completed(t)
    \/ \E t \in Threads : cleanup.by # t /\ call_return(t)
    \/ \E k \in Allocs : preload_worker(k)

SpecShutdown == InitShutdown /\ [][NextShutdown]_vars

\* the route to the next question, on a started session
NextQuestion ==
    \/ \E t \in Threads : Start(t)
    \/ \E t \in Threads, s \in scope.sessions : get_question(t, s)
    \/ \E t \in Threads : next_lookup(t)
    \/ \E t \in Threads : next_acquire(t)
    \/ \E t \in Threads : next_evict(t)
    \/ \E t \in Threads : next_pop(t)
    \/ \E t \in Threads : get_question_respond(t)
    \/ \E t \in Threads : ret[t].op # "next" /\ call_return(t)
    \/ \E k \in Allocs : preload_worker(k)
    \/ Tick

SpecQuestion == InitQuestion /\ [][NextQuestion]_vars

\* _preload_worker with _generate_question statement by statement
preload_worker_steps(k) ==
    \/ worker_loop(k)
    \/ worker_lookup(k)
    \/ worker_acquire(k)
    \/ worker_size(k)
    \/ generate_select(k)
    \/ generate_cache_acquire(k)
    \/ generate_cache_get(k)
    \/ generate_explain_word(k)
    \/ generate_cache_put_service(k)
    \/ generate_cache_put(k)
    \/ worker_lookup2(k)
    \/ worker_acquire2(k)
    \/ worker_append(k)
    \/ worker_log(k)

\* the status of a session
Status(t) ==
    \/ \E s \in scope.sessions : status_check(t, s)
    \/ status_lookup(t)
    \/ status_acquire(t)
    \/ status_len(t)
    \/ status_thread(t)

\* a started session, its consumers and the readers of its status
NextGenerate ==
    \/ \E t \in Threads : Start(t)
    \/ \E t \in Threads : Consume(t)
    \/ \E t \in Threads : Status(t)
    \/ \E t \in Threads : call_return(t)
    \/ \E k \in Allocs : preload_worker_steps(k)

SpecGenerate == InitGenerate /\ [][NextGenerate]_vars

\* one worker fills the queue of its session while consumers pop
NextThrottle ==
    \/ \E t \in Threads : Start(t)
    \/ \E t \in Threads : Consume(t)
    \/ \E t \in Threads : call_return(t)
    \/ \E k \in Allocs : preload_worker(k)

SpecThrottle == InitThrottle /\ [][NextThrottle]_vars

\* The worker thread is scheduled and its external calls return (weak
\* fairness of its loop); the stop calls run to their end.
SpecCancel ==
    /\ InitCancel
    /\ [][NextStop]_vars
    /\ \A k \in Allocs : WF_vars(preload_worker(k))
    /\ \A t \in Threads : WF_vars(stop_step(t))

\* generations of the filler sentence
NextSentence ==
    \/ \E t \in Threads, w \in scope.words : generate_sentence_with_word(t, w)
    \/ \E t \in Threads : call_return(t)

SpecSentence == InitSentence /\ [][NextSentence]_vars

\* ---- properties ----
\* the session id is a key of none of the four registries
Unknown(s) ==
    /\ ~Has(question_queues, s)
    /\ ~Has(session_locks, s)
    /\ ~Has(preload_threads, s)
    /\ ~Has(stop_events, s)

Running(s) == {k \in Allocs : is_alive(k) /\ wk[k].sid = s}

Elems(q) == {q[i] : i \in 1..Len(q)}

\* C1: whatever the interleaving of start, stop, get_next_question and the
\* worker's appends, and also with preload_ahead >= queue_size, no deque is
\* ever longer than queue_size.
C1_QueueWithinCapacity == \A k \in Allocs : Len(deque[k]) <= queue_size

\* the worker has appended to a full queue (threshold >= capacity): the
\* oldest question was dropped and the queue is at capacity
C1_Witness ==
    \E k \in Allocs :
        /\ question_queues[1] = k
        /\ preload_ahead >= queue_size
        /\ wk[k].pc = "log"
        /\ produced = 2
        /\ returned = {}
        /\ Len(deque[k]) = queue_size
        /\ Head(deque[k]).id = 2

\* C2: no question is returned twice: a question that get_next_question
\* returns has not been returned by any call before, however the calls and
\* the worker's appends interleave.
C2_AtMostOnce ==
    [][\A t \in Threads :
          (pc[t] = "next_pop" /\ pc'[t] = "done" /\ ret'[t].q # <<>>)
              => ret'[t].q[1].id \notin returned]_vars

\* a caller has been given a question while another caller is inside
\* get_next_question on the same session
C2_Witness ==
    /\ pc[2] = "done" /\ ret[2].op = "next" /\ ret[2].q # <<>>
    /\ pc[1] \in {"next_acquire", "next_evict", "next_pop"}
    /\ fr[1].sid = ret[2].sid

\* C3: get_next_question never returns a stale question (the time the call
\* reads is at most created_at + TTL), and a queued question that is stale
\* at that time is discarded by the call: it is not in the queue afterwards.
C3_NeverStale ==
    [][\A t \in Threads :
          (pc[t] = "next_pop" /\ pc'[t] = "done") =>
              /\ ret'[t].q # <<>> =>
                     ret'[t].at - ret'[t].q[1].created_at <= question_ttl
              /\ \A q \in Elems(deque[fr[t].k]) :
                     (fr[t].n - q.created_at > question_ttl) =>
                         q \notin Elems(deque'[fr[t].k])]_vars

\* C4: start_session_preloader on a session that has a worker handle spawns
\* nothing and changes no registry, queue, lock, stop event or worker,
\* whatever the user id.
C4_StartIdempotent ==
    [][\A t \in Threads, s \in Sessions, u \in Users :
          (start_check(t, s, u) /\ Has(preload_threads, s)) =>
              /\ pc'[t] = "done"
              /\ ~ret'[t].raised
              /\ UNCHANGED <<registries, heap>>]_vars

\* a second start, for another user, has returned; the session still has
\* the worker bound to the first user
C4_Witness ==
    /\ pc[1] = "done" /\ ret[1].op = "start"
    /\ Has(preload_threads, ret[1].sid)
    /\ is_alive(preload_threads[ret[1].sid])
    /\ wk[preload_threads[ret[1].sid]].uid # ret[1].arg

\* a call at one of these positions is past the membership test of line 60
StartPcs == {"start_queue", "start_lock", "start_event", "start_thread", "start_run"}

\* C5: of two overlapping start_session_preloader calls for one session id,
\* only one allocates the queue, lock and stop event and spawns a worker:
\* no two calls are both past the membership test for the same session.
C5_OneStartAllocates ==
    \A t1 \in Threads, t2 \in Threads :
        (t1 # t2 /\ pc[t1] \in StartPcs /\ pc[t2] \in StartPcs)
            => fr[t1].sid # fr[t2].sid

\* C6: with calls that never overlap, at most one worker is running for a
\* session id at any time, also after a stop whose join timed out.
C6_OneWorkerPerSession == \A s \in Sessions : Cardinality(Running(s)) <= 1

\* C7: stop_session_preloader, get_next_question and get_queue_status on a
\* session id that is in no registry return at once, without raising, with
\* the empty result, and change no registry, queue or cache.
C7_UnknownSessionNoOp ==
    [][\A t \in Threads, s \in Sessions :
          Unknown(s) =>
              /\ stop_check(t, s) =>
                     /\ pc'[t] = "done" /\ ret'[t] = Returns("stop", s)
                     /\ UNCHANGED <<registries, heap, explanation_cache>>
              /\ next_check(t, s) =>
                     /\ pc'[t] = "done" /\ ret'[t] = Returns("next", s)
                     /\ UNCHANGED <<registries, heap, explanation_cache>>
              /\ status_check(t, s) =>
                     /\ pc'[t] = "done" /\ ret'[t] = Returns("status", s)
                     /\ UNCHANGED <<registries, heap, explanation_cache>>]_vars

\* get_next_question on a stopped session has returned no question while
\* the other session has a question queued
C7_Witness ==
    /\ pc[1] = "done" /\ ret[1] = Returns("next", 2)
    /\ Unknown(2)
    /\ nextAlloc = 3
    /\ Has(question_queues, 1)
    /\ deque[question_queues[1]] # <<>>

\* C8: get_next_question, get_queue_status and get_explanation_for_word_id
\* never raise, also when they race with start or stop.
C8_ReadsNeverRaise ==
    \A t \in Threads :
        (pc[t] = "done" /\ ret[t].op \in {"next", "status", "expl"})
            => ~ret[t].raised

\* the questions for word w held by the registered queues
Live(w) ==
    {q \in UNION {Elems(deque[question_queues[s]]) :
                     s \in {x \in Sessions : Has(question_queues, x)}} :
        q.word_id = w}

\* C9: when no queue changes while get_explanation_for_word_id runs, it
\* returns an explanation iff a registered queue holds a question with the
\* word id, the explanation is that of such a question, and no queue changes.
C9_ExplanationIffQueued ==
    [][\A t \in Threads :
          (/\ pc[t] \in {"expl_next", "expl_scan"}
           /\ pc'[t] = "done"
           /\ fr[t].snap = <<question_queues, deque>>) =>
              /\ ~ret'[t].raised
              /\ ret'[t].expl # <<>> <=> Live(fr[t].arg) # {}
              /\ ret'[t].expl # <<>> =>
                     \E q \in Live(fr[t].arg) : ret'[t].expl = ExplanationOf(q)
              /\ UNCHANGED <<registries, deque>>]_vars

\* the explanation of a question that is second in its queue, behind a
\* question for another word, has been returned while both sessions are live
C9_Witness ==
    /\ pc[1] = "done" /\ ret[1].op = "expl" /\ ret[1].expl # <<>>
    /\ Has(question_queues, 1) /\ Has(question_queues, 2)
    /\ \E s \in Sessions :
          LET q == deque[question_queues[s]] IN
          /\ Len(q) = 2
          /\ q[1].word_id # ret[1].arg
          /\ ret[1].expl = ExplanationOf(q[2])

\* C10: when stop_session_preloader has returned, the session id is in none
\* of the four registries, whether or not the worker has exited, and
\* get_next_question on it returns no question.
C10_StopReleasesAll ==
    \A t \in Threads :
        pc[t] = "done" =>
            /\ ret[t].op = "stop" => Unknown(ret[t].sid)
            /\ (ret[t].op = "next" /\ Unknown(ret[t].sid)) => ret[t].q = <<>>

\* stop has returned after its join timed out: the worker is still running
C10_Witness ==
    /\ pc[1] = "done" /\ ret[1].op = "stop"
    /\ Running(ret[1].sid) # {}

KeySeq(c) == [i \in 1..Len(c) |-> c[i][1]]

\* C12: the cache never holds more than its capacity; a step that changes
\* it either stores under a key already present (no key is removed, the
\* order is kept), or adds a new key at the end, and then, if the cache was
\* full, removes exactly the oldest-inserted key.
C12_CacheEvictsOldest ==
    /\ [](Len(explanation_cache) <= scope.capacity)
    /\ [][explanation_cache' # explanation_cache =>
            LET old == KeySeq(explanation_cache)
                new == KeySeq(explanation_cache')
            IN \/ new = old
               \/ \E key \in scope.words \ CacheKeys(explanation_cache) :
                     IF Len(old) < scope.capacity
                     THEN new = Append(old, key)
                     ELSE new = Append(Tail(old), key)]_vars

\* capacity 3: after the keys 1, 2, 3 and 4 were inserted in that order the
\* first is gone and the other three remain
C12_Witness ==
    /\ scope.capacity = MaxCache
    /\ KeySeq(explanation_cache) = [i \in 1..MaxCache |-> i + 1]
\* C13: a value stored in the cache never changes: a key present before and
\* after a step has the same payload (an entry leaves only by eviction).
C13_CacheEntriesImmutable ==
    [][\A i \in 1..Len(explanation_cache), j \in 1..Len(explanation_cache') :
          explanation_cache[i][1] = explanation_cache'[j][1] =>
              explanation_cache[i][2] = explanation_cache'[j][2]]_vars
\* C14: within a session questions are served in the order the worker
\* generated and appended them: a question that get_next_question returns
\* was generated after every question returned before it, and no question
\* generated before it is left in the queue.
C14_ServedInGenerationOrder ==
    [][\A t \in Threads :
          (pc[t] = "next_pop" /\ pc'[t] = "done" /\ ret'[t].q # <<>>) =>
              /\ \A id \in returned : id < ret'[t].q[1].id
              /\ \A x \in Elems(deque[fr[t].k]) : x.id >= ret'[t].q[1].id]_vars

\* the two consumers hold the first and the second question of the session,
\* the second taken while the first call had not yet been answered
C14_Witness ==
    /\ pc[1] = "done" /\ ret[1].op = "next" /\ ret[1].q # <<>>
    /\ pc[2] = "done" /\ ret[2].op = "next" /\ ret[2].q # <<>>
    /\ ret[1].q[1].id = 2 /\ ret[2].q[1].id = 1
\* stop_session_preloader has been called for the session and has not
\* returned
Stopping(s) == \E t \in Threads : pc[t] \in StopPcs /\ fr[t].sid = s

\* C15: when the external service raises on every call, a started session
\* that is not being stopped has a running worker and an empty queue, and
\* get_queue_status reports an alive worker and a queue of size 0.
C15_FailingServiceKeepsQueueEmpty ==
    scope.kinds = {MockExplanation} =>
        /\ \A s \in Sessions :
               (/\ Has(preload_threads, s)
                /\ wk[preload_threads[s]].pc # "unstarted"
                /\ ~Stopping(s)) =>
                   /\ is_alive(preload_threads[s])
                   /\ Has(question_queues, s)
                   /\ deque[question_queues[s]] = <<>>
        /\ \A t \in Threads :
               (/\ pc[t] = "done" /\ ret[t].op = "status"
                /\ Has(preload_threads, ret[t].sid)) =>
                   ret[t].alive /\ ret[t].size = 0
\* C16: a worker stops running only after stop_session_preloader was called
\* for its session: it ends only when it finds the stop event of its session
\* set or removed, and only a stop call for that session sets or removes
\* it; a failed generation, an exhausted word pool or an exception in a loop
\* iteration does not end it.
C16_WorkerStopsOnlyOnStop ==
    [][/\ \A k \in Allocs :
             (is_alive(k) /\ ~is_alive(k)') =>
                 \/ ~Has(stop_events, wk[k].sid)
                 \/ event[stop_events[wk[k].sid]]
       /\ \A k \in Allocs :
             (~event[k] /\ event'[k]) =>
                 \E t \in Threads :
                     pc[t] = "stop_set" /\ stop_events[fr[t].sid] = k
       /\ \A s \in Sessions :
             (Has(stop_events, s) /\ ~Has(stop_events, s)') =>
                 \E t \in Threads :
                     pc[t] = "stop_pop_event" /\ fr[t].sid = s]_vars

\* nothing was ever generated, time has run out, get_next_question has just
\* returned no question, and the worker of the session is still running
C16_Witness ==
    /\ pc[1] = "done" /\ ret[1].op = "next" /\ ret[1].q = <<>>
    /\ produced = 0 /\ now = scope.horizon /\ now > 0
    /\ Has(preload_threads, ret[1].sid)
    /\ wk[preload_threads[ret[1].sid]].pc = "size"
    /\ ~event[stop_events[ret[1].sid]]
\* C17: the queues of two sessions of different users never mix: every
\* question in the queue of a session, and every question
\* get_next_question returns for it, was generated by a worker of that
\* session for the user of that session.
C17_NoCrossContamination ==
    /\ \A s \in Sessions :
           Has(question_queues, s) =>
               \A q \in Elems(deque[question_queues[s]]) : q.uid = Owner(s)
    /\ \A t \in Threads :
           (pc[t] = "done" /\ ret[t].op = "next" /\ ret[t].q # <<>>) =>
               ret[t].q[1].uid = Owner(ret[t].sid)

\* both sessions run and the worker of each has queued a question
C17_Witness ==
    /\ Has(question_queues, 1) /\ Has(question_queues, 2)
    /\ Has(preload_threads, 1) /\ Has(preload_threads, 2)
    /\ is_alive(preload_threads[1]) /\ is_alive(preload_threads[2])
    /\ deque[question_queues[1]] # <<>>
    /\ deque[question_queues[2]] # <<>>
    /\ Head(deque[question_queues[1]]).uid # Head(deque[question_queues[2]]).uid
\* thread.start() has been called for the worker of session 1
Started1 ==
    Has(preload_threads, 1) /\ wk[preload_threads[1]].pc # "unstarted"

\* the length of the queue of session 1
QueueLen1 ==
    IF Has(question_queues, 1) THEN Len(deque[question_queues[1]]) ELSE 0

\* C18, as stated: once a session is started and its worker is scheduled,
\* the queue eventually holds a question and, nothing being consumed,
\* eventually holds preload_ahead questions.
C18_QueueFillsToThreshold ==
    /\ Started1 ~> (QueueLen1 >= 1)
    /\ Started1 ~> (QueueLen1 >= preload_ahead)

\* C18, amended: once a session is started and its worker is scheduled, the
\* queue eventually holds a question and, nothing being consumed,
\* eventually holds min(preload_ahead, queue_size) questions.
C18_QueueFillsToThresholdOrCapacity ==
    /\ Started1 ~> (QueueLen1 >= 1)
    /\ Started1 ~> (QueueLen1 >= Min(preload_ahead, queue_size))

\* a queue of capacity 1 under a threshold of 2 is full, and the worker is
\* generating again
C18_Witness ==
    /\ Started1
    /\ queue_size = 1 /\ preload_ahead = 2
    /\ QueueLen1 = 1
    /\ wk[preload_threads[1]].pc = "generate"
\* how many choices equal the pair p
Count(c, p) == Cardinality({i \in 1..Len(c) : c[i] = p})

C20_DueBeforeUnseen ==
    \A t \in Threads :
        (pc[t] = "done" /\ ret[t].op = "select") =>
            LET uw == scope.user_words
                at == ret[t].at
                w == ret[t].arg
                due == {v \in DOMAIN uw : Due(uw[v], at)}
                unseen == {v \in DOMAIN uw : ~uw[v].row}
            IN /\ due # {} =>
                     /\ w \in due
                     /\ \A v \in due : NotAfter(uw[w], uw[v])
               /\ w \in unseen => due = {}
               /\ w = 0 => due = {} /\ unseen = {}
\* C21: the word selected for a session is never one that has a question
\* attempt in that session.
C21_NeverSelectsAttemptedWord ==
    [][\A t \in Threads, s \in Sessions :
          (get_next_word_for_session(t, s) /\ ret'[t].arg # 0) =>
              <<s, ret'[t].arg>> \notin question_attempts]_vars
\* C22: when cleanup_preloaders completes, stop_session_preloader has been
\* called on every session that had a worker handle when it began and no
\* session id is a key of any registry; it never raises, and a second run
\* (the signal handler, then atexit) completes the same way.
C22_ShutdownDrains ==
    /\ [][\A t \in Threads :
             cleanup_completed(t) =>
                 /\ cleanup.began \subseteq cleanup.called
                 /\ \A s \in Sessions : Unknown(s)]_vars
    /\ [](\A t \in Threads : ret[t].op \in {"cleanup", "stop"} => ~ret[t].raised)

\* the second run of the cleanup has completed; the first had stopped two
\* sessions, and a worker that outlived the join is still running
C22_Witness ==
    /\ pc[1] = "done" /\ ret[1].op = "cleanup"
    /\ cleanup.runs = 2
    /\ cleanup.began = {}
    /\ nextAlloc > MaxStarts
    /\ \E k \in Allocs : is_alive(k)
\* C23: for a valid session below its limit whose user has candidate words,
\* fetching a question succeeds with a question, from the queue or from the
\* synchronous fallback; a question popped from the queue is the one
\* delivered, never lost in an error.
C23_QuestionAlwaysDelivered ==
    [][\A t \in Threads :
          get_question_respond(t) =>
              /\ ~ret'[t].raised
              /\ ret'[t].q # <<>>
              /\ ret[t].q # <<>> =>
                     /\ ret'[t].q[1].source = "preloaded"
                     /\ ret'[t].q[1].word_id = ret[t].q[1].word_id]_vars
\* the word-store query or the call of the external service is in flight
InFlight(k) == wk[k].pc \in {"generate", "explain_word"}

\* C24: a worker whose word-store query or external call is in flight holds
\* neither a session lock nor the cache lock, and the lock of its session
\* is free or held by a request thread.
C24_NoLockDuringExternalCall ==
    \A k \in Allocs :
        InFlight(k) =>
            /\ \A l \in DOMAIN lock : lock[l] # -k
            /\ Has(session_locks, wk[k].sid) => lock[session_locks[wk[k].sid]] >= 0

\* the external call of the worker is in flight while a consumer holds the
\* lock of the session and another request thread waits for it
C24_Witness ==
    \E k \in Allocs :
        /\ wk[k].pc = "explain_word"
        /\ pc[1] = "next_pop" /\ lock[session_locks[1]] = 1
        /\ pc[2] = "status_acquire"
\* C25: with one worker for the session, the queue is never longer than the
\* preload-ahead threshold, and with the threshold at most the capacity an
\* append of the worker drops no queued question.
C25_ThrottleBoundsQueue ==
    /\ [](\A k \in Allocs : Len(deque[k]) <= preload_ahead)
    /\ [][\A k \in Allocs :
             (worker_append(k) /\ Has(question_queues, wk[k].sid)
                               /\ preload_ahead <= queue_size) =>
                 LET d == question_queues[wk[k].sid] IN
                 /\ Len(deque'[d]) = Len(deque[d]) + 1
                 /\ \A i \in 1..Len(deque[d]) : deque'[d][i] = deque[d][i]]_vars

\* the worker has just appended while a consumer was served a question: the
\* queue is at the threshold, below the capacity
C25_Witness ==
    \E k \in Allocs :
        /\ wk[k].pc = "log"
        /\ preload_ahead = 1 /\ queue_size = 2
        /\ Len(deque[k]) = 1
        /\ returned # {}
        /\ \E t \in Threads : pc[t] = "done" /\ ret[t].op = "next" /\ ret[t].q # <<>>
\* the stop signal of the worker's session is set, or already removed
Signalled(k) ==
    \/ ~Has(stop_events, wk[k].sid)
    \/ event[stop_events[wk[k].sid]]

\* the statements of the loop between the test of the stop signal and the
\* generation
BeforeGenerate == {"lookup", "acquire", "size"}

\* C26: once the stop signal of its session is set (or removed by a stop
\* that timed out), a running worker eventually ends; past the statements
\* that precede a generation it never comes back to them, so it begins at
\* most one more generation; and with the session gone from the registries
\* its steps change no queue.
C26_CancellationStopsWorker ==
    /\ \A k \in Allocs : (is_alive(k) /\ Signalled(k)) ~> ~is_alive(k)
    /\ [][\A k \in Allocs :
             (is_alive(k) /\ Signalled(k) /\ preload_worker(k)) =>
                 /\ wk[k].pc \notin BeforeGenerate =>
                        wk'[k].pc \notin BeforeGenerate
                 /\ Unknown(wk[k].sid) => deque' = deque]_vars

\* stop has returned by timeout and removed the session from the four
\* registries while the worker is still inside generation
C26_Witness ==
    /\ pc[1] = "done" /\ ret[1].op = "stop"
    /\ Unknown(1)
    /\ \E k \in Allocs : wk[k].pc = "generate" /\ wk[k].sid = 1
\* C27: the explanation cache holds answers of the external service only:
\* the mock explanation given after a call that raised is never stored, so
\* it is never served from the cache.
C27_CacheHoldsServiceAnswersOnly ==
    \A i \in 1..Len(explanation_cache) :
        explanation_cache[i][2] # MockExplanation
\* the statements of the worker that read or write the queue of its
\* session: lines 183-184, line 191, and the length read at line 192
WorkerAccess == {"size", "append", "log"}

\* the statements of the request threads that read or write a queue: lines
\* 109-123, line 131, lines 163-171
ThreadAccess == {"next_evict", "next_pop", "status_len", "expl_scan"}

\* C28: whoever is at a statement that reads or writes the queue of a
\* session holds the lock registered for that session, so no two threads
\* are at such statements for the same queue at once.
C28_QueueAccessUnderSessionLock ==
    /\ \A k \in Allocs :
          (wk[k].pc \in WorkerAccess /\ Has(question_queues, wk[k].sid)) =>
              /\ Has(session_locks, wk[k].sid)
              /\ lock[session_locks[wk[k].sid]] = -k
    /\ \A t \in Threads :
          (pc[t] \in ThreadAccess /\ Has(question_queues, fr[t].sid)) =>
              /\ Has(session_locks, fr[t].sid)
              /\ lock[session_locks[fr[t].sid]] = t
\* C29: two generations of the filler sentence for the same word give the
\* same sentence.
C29_SentenceDeterministic ==
    \A t1, t2 \in Threads :
        (/\ pc[t1] = "done" /\ ret[t1].op = "sentence"
         /\ pc[t2] = "done" /\ ret[t2].op = "sentence"
         /\ ret[t1].arg = ret[t2].arg) =>
            ret[t1].expl = ret[t2].expl
\* correct answers in a row, and the interval index, of a row before an
\* answer; a word without progress record has none
StreakOf(r) == IF r.row THEN r.correct_count ELSE 0
IndexOf(r) == IF r.row THEN r.srs_interval ELSE 0

\* C30: every submitted answer for a word, from no progress record on:
\* correct_count becomes the number of correct answers in a row (one more
\* on a correct answer, 0 on an incorrect one); the word is in the
\* wrongbook exactly when correct_count < 3; the interval index rises by
\* one up to 4 on a correct answer, is 0 after an incorrect one, and stays
\* within 0..4.
C30_SrsProgress ==
    [][\A t \in Threads, s \in Sessions, w \in Words, c \in BOOLEAN :
          submit_answer(t, s, w, c) =>
              LET old == user_words[w]
                  new == user_words'[w]
              IN /\ new.row
                 /\ new.correct_count = IF c THEN StreakOf(old) + 1 ELSE 0
                 /\ (new.in_wrongbook = 1) <=> (new.correct_count < 3)
                 /\ new.in_wrongbook \in {0, 1}
                 /\ new.srs_interval \in 0..4
                 /\ new.srs_interval = IF c THEN Min(IndexOf(old) + 1, 4) ELSE 0
                 /\ \A v \in Words \ {w} : user_words'[v] = user_words[v]]_vars

\* a fifth correct answer in a row: the word is out of the wrongbook and
\* the interval index is at its cap, while the other word, answered
\* wrongly after three correct answers, is back in the wrongbook
C30_Witness ==
    /\ pc[1] = "done" /\ ret[1].op = "answer" /\ ret[1].is_correct
    /\ ret[1].arg = 1
    /\ user_words[1].correct_count = 5
    /\ user_words[1].srs_interval = 4
    /\ user_words[1].in_wrongbook = 0
    /\ user_words[2].row /\ user_words[2].correct_count = 0
    /\ user_words[2].in_wrongbook = 1 /\ user_words[2].srs_interval = 0
    /\ user_words[2].next_review < user_words[1].next_review
====
